---- MODULE Spec2Model ----
(***************************************************************************)
(* A model of the mini-video-editor repository: the command line front end *)
(* (src/main.py), the two windowed front ends (ffmpeg_app_simple.py and    *)
(* ffmpeg_app.py), the argparse wrapper (mini_ffmpeg.py) and the direct    *)
(* splitter (split_video.py).  The external media tool and its probing     *)
(* companion are black boxes: every launch draws an exit status, an amount *)
(* of error text and the files it leaves behind from small sets.           *)
(*                                                                         *)
(* Text is modelled as a sequence of one-character strings, so that the    *)
(* stem, suffix, strip and replace computations of the code are computed   *)
(* and not assumed.                                                        *)
(***************************************************************************)
EXTENDS Integers, Sequences, FiniteSets, TLC

VARIABLES
    prog,           \* which program of the repository this run executes
    pc,             \* position of the program's main control flow
    ret,            \* exit status of the program, None while it runs
    tool_available, \* environment: would "ffmpeg -version" / which succeed
    ffmpeg_path,    \* the variable ffmpeg_path / self.ffmpeg_path
    current_file,   \* the session's selected file
    fs,             \* environment: the set of paths that exist on disk
    nops,           \* number of operations requested so far (bounded)
    last,           \* what the last handler did (its launches and outcome)
    workers,        \* GUI: the background worker threads, by creation order
    dialog,         \* GUI: the modal dialog that is open, if any
    progress_bar,   \* GUI: is the indeterminate bar animating
    progress_label, \* GUI: what the status label shows
    sp_pc,          \* stream model: position of the parent's read loop
    sp_child,       \* stream model: the child's remaining writes and state
    sp_out,         \* stream model: lines buffered in the stdout pipe
    sp_err,         \* stream model: chunks buffered in the stderr pipe
    sp_ret,         \* stream model: what the operation returned
    pn_file,        \* naming model: the selected file
    pn_out,         \* naming model: the output path of the last operation
    pn_op,          \* naming model: the last operation
    pn_depth,       \* naming model: how many outputs were re-selected
    ps_front,       \* split by parts: the front end that was asked
    ps_value,       \* split by parts: the number of parts as typed
    ps_total,       \* split by parts: the duration the probe reported
    ps_segment,     \* split by parts: segment_duration
    ps_cmd,         \* split by parts: the argument vector that was built
    dd_path,        \* prompt cleaning: the path that is meant
    dd_form,        \* prompt cleaning: how it was written
    dd_input,       \* prompt cleaning: the text read from the prompt
    dd_clean,       \* prompt cleaning: file_input after the cleaning
    dd_again,       \* prompt cleaning: the cleaning applied to its result
    dd_select,      \* prompt cleaning: file_input of menu choice 9 for that text
    ts_pc,          \* test_setup: position of main
    ts_version,     \* test_setup: sys.version_info (major, minor)
    ts_tkinter,     \* test_setup: can tkinter be imported
    ts_dnd,         \* test_setup: can tkinterdnd2 be imported
    ts_ffmpeg,      \* test_setup: how "ffmpeg -version" ends
    ts_files,       \* test_setup: the application files that exist
    ts_checks,      \* test_setup: the dictionary checks
    ts_ret,         \* test_setup: what main returned
    pg_pc,          \* progress loop: position of the parent
    pg_interval,    \* progress loop: seconds between progress messages
    pg_lines,       \* progress loop: lines read so far
    pg_time,        \* progress loop: the last out_time_ms that was read
    pg_started,     \* progress loop: "progress started" messages printed
    pg_shown,       \* progress loop: the seconds a progress message was printed for
    bd_pc,          \* build pipeline: position of the driver
    bd_pipeline,    \* build pipeline: simple_build or build_pro
    bd_ran,         \* build pipeline: the steps called so far, in order
    bd_outcomes,    \* build pipeline: how each called step ended
    success_count,  \* build pipeline: the counter success_count
    bd_summary,     \* build pipeline: the final banner
    bd_ret,         \* build pipeline: what the pipeline returned
    vm_pc,          \* version manager: is the object constructed
    version_file,   \* version manager: the content of version.json
    current_version,\* version manager: the field current_version
    vm_calls,       \* version manager: calls made so far (bounded)
    vm_last,        \* version manager: the last call, what it read and returned
    pb_pc,          \* scripts/build.py: position of build()
    current_os,     \* scripts/build.py: platform.system()
    pb_dirs,        \* scripts/build.py: the build directories and caches that exist
    pb_ran,         \* scripts/build.py: the steps called so far and how each ended
    pb_said,        \* scripts/build.py: the last banner printed
    pb_ret,         \* scripts/build.py: what build() returned
    bar_total,      \* progress bar: self.total
    bar_width,      \* progress bar: self.width
    bar_current,    \* progress bar: self.current
    bar_desc,       \* progress bar: self.desc
    bar_drawn,      \* progress bar: what _display drew last
    bar_last,       \* progress bar: the last call
    sn_pc,          \* spinner: position of the caller
    spinning,       \* spinner: self.spinning
    thread,         \* spinner: self.thread, as the number of the thread
    sn_threads,     \* spinner: where each thread created so far is in _spin
    sn_out,         \* spinner: what was printed last
    sn_calls        \* spinner: the calls made so far

vars == <<prog, pc, ret, tool_available, ffmpeg_path, current_file, fs, nops,
          last, workers, dialog, progress_bar, progress_label,
          sp_pc, sp_child, sp_out, sp_err, sp_ret,
          pn_file, pn_out, pn_op, pn_depth,
          ps_front, ps_value, ps_total, ps_segment, ps_cmd,
          dd_path, dd_form, dd_input, dd_clean, dd_again, dd_select,
          ts_pc, ts_version, ts_tkinter, ts_dnd, ts_ffmpeg, ts_files, ts_checks, ts_ret,
          pg_pc, pg_interval, pg_lines, pg_time, pg_started, pg_shown,
          bd_pc, bd_pipeline, bd_ran, bd_outcomes, success_count, bd_summary, bd_ret,
          vm_pc, version_file, current_version, vm_calls, vm_last,
          pb_pc, current_os, pb_dirs, pb_ran, pb_said, pb_ret,
          bar_total, bar_width, bar_current, bar_desc, bar_drawn, bar_last,
          sn_pc, spinning, thread, sn_threads, sn_out, sn_calls>>

sessionVars == <<prog, pc, ret, tool_available, ffmpeg_path, current_file, fs,
                 nops, last, workers, dialog, progress_bar, progress_label>>
streamVars == <<sp_pc, sp_child, sp_out, sp_err, sp_ret>>
namingVars == <<pn_file, pn_out, pn_op, pn_depth>>
partsVars == <<ps_front, ps_value, ps_total, ps_segment, ps_cmd>>
dropVars == <<dd_path, dd_form, dd_input, dd_clean, dd_again, dd_select>>
setupVars == <<ts_pc, ts_version, ts_tkinter, ts_dnd, ts_ffmpeg, ts_files, ts_checks, ts_ret>>
progressVars == <<pg_pc, pg_interval, pg_lines, pg_time, pg_started, pg_shown>>
buildVars == <<bd_pc, bd_pipeline, bd_ran, bd_outcomes, success_count, bd_summary, bd_ret>>
versionVars == <<vm_pc, version_file, current_version, vm_calls, vm_last>>
builderVars == <<pb_pc, current_os, pb_dirs, pb_ran, pb_said, pb_ret>>
barVars == <<bar_total, bar_width, bar_current, bar_desc, bar_drawn, bar_last>>
spinnerVars == <<sn_pc, spinning, thread, sn_threads, sn_out, sn_calls>>
sideVars == <<partsVars, dropVars, setupVars, progressVars, buildVars, versionVars, builderVars, barVars, spinnerVars>>

---------------------------------------------------------------------------
(* Bounds of the model.                                                    *)

MaxOps == 2        \* operations requested in one session
MaxParts == 2      \* segment files one split invocation leaves behind

None == "None"     \* Python's None

---------------------------------------------------------------------------
(* Text helpers: Python str methods on sequences of characters.            *)

Range(s) == {s[i] : i \in 1..Len(s)}

Max(a, b) == IF a >= b THEN a ELSE b
Min(a, b) == IF a <= b THEN a ELSE b

RECURSIVE ToStr(_)
\* str(path): the text as one string, as it is put into an argument vector
ToStr(s) ==
    IF s = <<>> THEN ""
    ELSE IF Len(s) = 1 THEN s[1]
    ELSE ToStr(SubSeq(s, 1, Len(s) \div 2))
         \o ToStr(SubSeq(s, (Len(s) \div 2) + 1, Len(s)))

StartsWith(s, p) == Len(s) >= Len(p) /\ SubSeq(s, 1, Len(p)) = p
EndsWith(s, p) == Len(s) >= Len(p) /\ SubSeq(s, Len(s) - Len(p) + 1, Len(s)) = p

\* s.rfind(c), 1-based; 0 when c does not occur
RFind(s, c) ==
    LET hits == {i \in 1..Len(s) : s[i] = c}
    IN  IF hits = {} THEN 0 ELSE CHOOSE i \in hits : \A j \in hits : j <= i


\* s.strip(chars): leading and trailing characters of the set removed
RECURSIVE LStrip(_, _)
LStrip(s, chars) ==
    IF s # <<>> /\ Head(s) \in chars THEN LStrip(Tail(s), chars) ELSE s
RECURSIVE RStrip(_, _)
RStrip(s, chars) ==
    IF s # <<>> /\ s[Len(s)] \in chars
    THEN RStrip(SubSeq(s, 1, Len(s) - 1), chars) ELSE s
Strip(s, chars) == RStrip(LStrip(s, chars), chars)

Whitespace == {" "}

\* s.replace('\\ ', ' '): every backslash-space pair, left to right
RECURSIVE ReplaceEscapedSpaces(_)
ReplaceEscapedSpaces(s) ==
    IF Len(s) < 2 THEN s
    ELSE IF s[1] = "\\" /\ s[2] = " "
         THEN <<" ">> \o ReplaceEscapedSpaces(SubSeq(s, 3, Len(s)))
         ELSE <<s[1]>> \o ReplaceEscapedSpaces(Tail(s))

---------------------------------------------------------------------------
(* pathlib on relative POSIX paths: name, parent, stem and the / operator. *)

\* Path(p).name: the text after the last slash
PathName(p) == SubSeq(p, RFind(p, "/") + 1, Len(p))

\* Path(p).parent: the text before the last slash; <<>> stands for "."
PathParent(p) ==
    LET i == RFind(p, "/")
    IN  IF i = 0 THEN <<>> ELSE IF i = 1 THEN <<"/">> ELSE SubSeq(p, 1, i - 1)

\* Path(p).stem: the name without its suffix; a suffix starts at the last
\* dot unless that dot opens or closes the name
PathStem(p) ==
    LET name == PathName(p)
        i == RFind(name, ".")
    IN  IF 1 < i /\ i < Len(name) THEN SubSeq(name, 1, i - 1) ELSE name

\* parent / name
PathJoin(parent, name) ==
    IF parent = <<>> THEN name
    ELSE IF parent = <<"/">> THEN parent \o name
    ELSE parent \o <<"/">> \o name

---------------------------------------------------------------------------
(* The literals of the code.                                               *)

Mp4 == <<"m", "p", "4">>
Mp3 == <<"m", "p", "3">>
SfxConverted == <<"_", "c", "o", "n", "v", "e", "r", "t", "e", "d", ".">>
SfxAudio == <<"_", "a", "u", "d", "i", "o", ".", "m", "p", "3">>
SfxCompressed == <<"_", "c", "o", "m", "p", "r", "e", "s", "s", "e", "d", ".", "m", "p", "4">>
SfxCut == <<"_", "c", "u", "t", ".", "m", "p", "4">>
SfxFixed == <<"_", "f", "i", "x", "e", "d", ".", "m", "p", "4">>
SfxSplit == <<"_", "s", "p", "l", "i", "t">>
SfxPart == <<"_", "p", "a", "r", "t">>
SfxPattern == <<"_", "p", "a", "r", "t", "%", "0", "3", "d", ".", "m", "p", "4">>
DotMp4 == <<".", "m", "p", "4">>

Digits == <<"0", "1", "2", "3", "4", "5", "6", "7", "8", "9">>
\* "%03d" % n, for 0 <= n < 1000
Fmt03d(n) ==
    <<Digits[(n \div 100) + 1], Digits[((n \div 10) % 10) + 1], Digits[(n % 10) + 1]>>

---------------------------------------------------------------------------
(* Output paths: siblings of the input named after its stem.               *)

\* input_path.parent / f"{input_path.stem}<suffix>"
Sibling(file, suffix) == PathJoin(PathParent(file), PathStem(file) \o suffix)

MutConvertOutput(file, fmt) == PathJoin(PathParent(file), PathStem(file) \o <<".">> \o fmt)
\* convert_file: <stem>_converted.<format>
ConvertOutput(file, fmt) == Sibling(file, SfxConverted \o fmt)
\* extract_audio: <stem>_audio.mp3
AudioOutput(file) == Sibling(file, SfxAudio)
\* compress_video: <stem>_compressed.mp4
CompressOutput(file) == Sibling(file, SfxCompressed)
\* cut_video: <stem>_cut.mp4
CutOutput(file) == Sibling(file, SfxCut)
\* fix_broken_video: <stem>_fixed.mp4
FixedOutput(file) == Sibling(file, SfxFixed)
\* split_video: the directory <stem>_split beside the input
SplitDir(file) == Sibling(file, SfxSplit)
\* split_video: <stem>_split/<stem>_part%03d.mp4
SplitPattern(file) == PathJoin(SplitDir(file), PathStem(file) \o SfxPattern)
\* the n-th segment the tool writes for that pattern
SplitPart(file, n) ==
    PathJoin(SplitDir(file), PathStem(file) \o SfxPart \o Fmt03d(n) \o DotMp4)
\* output_dir.glob(f"{stem}_part*.mp4"): the files of the directory that match
GlobParts(files, file) ==
    {p \in files :
        /\ PathParent(p) = SplitDir(file)
        /\ StartsWith(PathName(p), PathStem(file) \o SfxPart)
        /\ EndsWith(PathName(p), DotMp4)
        /\ Len(PathName(p)) >= Len(PathStem(file) \o SfxPart) + Len(DotMp4)}

---------------------------------------------------------------------------
(* Numbers typed by the user and numbers written into argument vectors.    *)

DigitChars == Range(Digits)
\* str.isdigit() on ASCII text: non-empty and decimal digits only
IsDigit(s) == s # <<>> /\ \A i \in 1..Len(s) : s[i] \in DigitChars
DigitVal(c) == CHOOSE d \in 0..9 : Digits[d + 1] = c
RECURSIVE ParseInt(_)
\* int(s) for a string of decimal digits
ParseInt(s) ==
    IF s = <<>> THEN 0
    ELSE 10 * ParseInt(SubSeq(s, 1, Len(s) - 1)) + DigitVal(s[Len(s)])
MutPartsAccepted(value) == IsDigit(value)
\* split by parts: "not value.isdigit() or int(value) < 2" is the rejection
PartsAccepted(value) == IsDigit(value) /\ ParseInt(value) >= 2
RECURSIVE IntSeq(_)
IntSeq(n) == IF n < 10 THEN <<Digits[n + 1]>> ELSE IntSeq(n \div 10) \o <<Digits[(n % 10) + 1]>>
\* str(n) for a natural number
IntStr(n) == ToStr(IntSeq(n))

\* natural numbers of any size, as sequences of hexadecimal digits (0..15),
\* lowest digit first
RECURSIVE NatHex(_)
NatHex(n) == IF n = 0 THEN <<>> ELSE <<n % 16>> \o NatHex(n \div 16)
RECURSIVE HexNat(_)
HexNat(h) == IF h = <<>> THEN 0 ELSE h[1] + 16 * HexNat(Tail(h))
RECURSIVE TrimHex(_)
TrimHex(h) ==
    IF h # <<>> /\ h[Len(h)] = 0 THEN TrimHex(SubSeq(h, 1, Len(h) - 1)) ELSE h
RECURSIVE MulAdd(_, _, _)
\* h * n + c for small n and c
MulAdd(h, n, c) ==
    IF h = <<>> THEN NatHex(c)
    ELSE <<(h[1] * n + c) % 16>> \o MulAdd(Tail(h), n, (h[1] * n + c) \div 16)
RECURSIVE Pow(_, _)
Pow(base, n) == IF n = 0 THEN 1 ELSE base * Pow(base, n - 1)
\* h * 2^k
ShiftLeft(h, k) == MulAdd([i \in 1..(k \div 4) |-> 0] \o h, Pow(2, k % 4), 0)
RECURSIVE TopLeq(_, _)
TopLeq(x, y) ==
    IF x = <<>> THEN TRUE
    ELSE IF x[Len(x)] # y[Len(y)] THEN x[Len(x)] < y[Len(y)]
    ELSE TopLeq(SubSeq(x, 1, Len(x) - 1), SubSeq(y, 1, Len(y) - 1))
\* a <= b
HexLeq(a, b) ==
    IF Len(TrimHex(a)) # Len(TrimHex(b)) THEN Len(TrimHex(a)) < Len(TrimHex(b))
    ELSE TopLeq(TrimHex(a), TrimHex(b))
RECURSIVE LowZeroBits(_)
\* how many times 2 divides h (h is not zero)
LowZeroBits(h) ==
    IF h[1] = 0 THEN 4 + LowZeroBits(Tail(h))
    ELSE IF h[1] % 2 = 1 THEN 0
    ELSE IF h[1] % 4 = 2 THEN 1
    ELSE IF h[1] % 8 = 4 THEN 2 ELSE 3
Reverse(s) == [i \in 1..Len(s) |-> s[Len(s) + 1 - i]]

\* A Python float is an IEEE 754 double: a significand of MantissaBits bits
\* (a leading 1 and FractionDigits hexadecimal digits) and a power of two.
\* Float(mant, scale) is the number mant / 2^scale.
MantissaBits == 53
FractionDigits == (MantissaBits - 1) \div 4
Float(mant, scale) == [mant |-> mant, scale |-> scale]
FloatZero == Float(<<>>, 0)

RECURSIVE Normalise(_, _, _)
\* a / b brought into [1, 2) by halving and doubling: a/b * 2^e is unchanged
Normalise(a, b, e) ==
    IF a < b THEN Normalise(2 * a, b, e - 1)
    ELSE IF a >= 2 * b THEN Normalise(a, 2 * b, e + 1)
    ELSE [a |-> a, b |-> b, e |-> e]
RECURSIVE LongDiv(_, _, _)
\* n hexadecimal digits of r / b (r < b), highest first, followed by what is
\* left over (in units of 1/b of the last place)
LongDiv(r, b, n) ==
    IF n = 0 THEN <<r>>
    ELSE <<(16 * r) \div b>> \o LongDiv((16 * r) % b, b, n - 1)
\* the quotient of two natural numbers as a double; nearest: round to
\* nearest, ties to even (otherwise the digits left over are dropped)
Divide(total, parts, nearest) ==
    IF total = 0 THEN FloatZero
    ELSE LET nm == Normalise(total, parts, 0)
             q == LongDiv(nm.a - nm.b, nm.b, FractionDigits)
             low == Reverse(SubSeq(q, 1, FractionDigits)) \o <<1>>
             rem == q[FractionDigits + 1]
             up == nearest /\ (2 * rem > nm.b \/ (2 * rem = nm.b /\ low[1] % 2 = 1))
             mant == IF up THEN MulAdd(low, 1, 1) ELSE low
             scale == (MantissaBits - 1) - nm.e
         IN  IF mant[FractionDigits + 1] = 2
             THEN Float([i \in 1..FractionDigits |-> 0] \o <<1>>, scale - 1)
             ELSE Float(mant, scale)
MutFloatDiv(total, parts) == Divide(total, parts, FALSE)
\* total_duration / int(num_parts)
FloatDiv(total, parts) == Divide(total, parts, TRUE)

\* the binary digits of h, lowest first
Bits(h) ==
    [i \in 1..(4 * Len(h)) |-> (h[((i - 1) \div 4) + 1] \div Pow(2, (i - 1) % 4)) % 2]
\* the position of the highest 1 (0 when there is none)
BitLen(b) ==
    IF \A i \in DOMAIN b : b[i] = 0 THEN 0
    ELSE CHOOSE i \in DOMAIN b : b[i] = 1 /\ \A j \in (i + 1)..Len(b) : b[j] = 0
RECURSIVE BitsNat(_)
BitsNat(b) == IF b = <<>> THEN 0 ELSE b[1] + 2 * BitsNat(Tail(b))
MutFloorOfProduct(n, x) == n
\* int(n * x) for a natural number n and a float x >= 0: the exact product
\* is rounded to MantissaBits bits (to nearest, ties to even) and what
\* follows the binary point is dropped
FloorOfProduct(n, x) ==
    LET b == Bits(MulAdd(x.mant, n, 0))
        bit(i) == IF i \in DOMAIN b THEN b[i] ELSE 0
        nbits == BitLen(b)
        d == Max(nbits - MantissaBits, 0)
        up == /\ d > 0 /\ bit(d) = 1
              /\ ((\E i \in 1..(d - 1) : bit(i) = 1) \/ bit(d + 1) = 1)
        carries == \A i \in (d + 1)..x.scale : bit(i) = 1
        whole == BitsNat(SubSeq(b, x.scale + 1, nbits))
    IN  IF nbits = 0 THEN 0
        ELSE whole + (IF up /\ carries THEN 1 ELSE 0)

MaxFracBits == 3
RECURSIVE ZeroPad(_, _)
ZeroPad(s, n) == IF Len(s) >= n THEN s ELSE ZeroPad(<<"0">> \o s, n)
HexChars ==
    <<"0", "1", "2", "3", "4", "5", "6", "7", "8", "9", "a", "b", "c", "d", "e", "f">>
\* x.hex(): the significand in hexadecimal and the power of two
FloatHex(x) ==
    "0x1."
    \o ToStr([i \in 1..FractionDigits |-> HexChars[x.mant[FractionDigits + 1 - i] + 1]])
    \o (IF x.scale > MantissaBits - 1
        THEN "p-" \o IntStr(x.scale - (MantissaBits - 1))
        ELSE "p+" \o IntStr((MantissaBits - 1) - x.scale))
\* str(x) of a float: the shortest decimal number that reads back as x.  For
\* an x with at most MaxFracBits binary places that is its exact decimal
\* expansion; any other x is named by x.hex(), which also reads back as x
FloatStr(x) ==
    IF x.mant = <<>> THEN "0.0"
    ELSE LET z == LowZeroBits(x.mant)
             places == x.scale - z
             odd == HexNat(SubSeq(x.mant, (z \div 4) + 1, Len(x.mant)))
                    \div Pow(2, z % 4)
         IN  IF places <= 0
             THEN IntStr(odd * Pow(2, 0 - places)) \o ".0"
             ELSE IF places <= MaxFracBits
             THEN IntStr(odd \div Pow(2, places)) \o "."
                  \o ToStr(ZeroPad(IntSeq((odd % Pow(2, places)) * Pow(5, places)),
                                   places))
             ELSE FloatHex(x)

---------------------------------------------------------------------------
(* The external tool as the code sees it: an exit status, error text of    *)
(* some length, and the files it leaves behind.                            *)

ErrSliceLen == 500                 \* the slice of error text that is printed
ExitCodes == {0, 1}
ErrLens == {0, 300, 800}           \* lengths of the text on the error stream
\* the error text is looked at after a failure only: the length of what a
\* successful child wrote is left out of the record
ErrOf(rc) == IF rc = 0 THEN {0} ELSE ErrLens

\* one launch of a child process
Run(tool, kind, cmd, input, out, rc, err, shown) ==
    [tool |-> tool, kind |-> kind, cmd |-> cmd, input |-> input, out |-> out,
     rc |-> rc, err |-> err, shown |-> shown]

\* what of the child's error text reached the user: the characters lo+1..hi
NoShown == [src |-> "none", lo |-> 0, hi |-> 0]
\* text[-500:]
TailSlice(n) == [src |-> "stderr", lo |-> Max(0, n - ErrSliceLen), hi |-> n]
\* text[:500]
HeadSlice(n) == [src |-> "stderr", lo |-> 0, hi |-> Min(n, ErrSliceLen)]
\* print_error(f"Error: {e}"): the text of a Python exception instead
ExceptionShown == [src |-> "exception", lo |-> 0, hi |-> 0]
\* "if stderr_output: print(stderr_output[-500:])"
TailIfAny(n) == IF n > 0 THEN TailSlice(n) ELSE NoShown

\* the record of one handled request: the launches it made, in order, each
\* with what it showed of that child's error text, and what it returned
\* and the last message it gave the user
Done(op, input, existed, runs, result, out, said) ==
    [op |-> op, input |-> input, existed |-> existed, runs |-> runs,
     result |-> result, out |-> out, said |-> said]
NoOp == Done("none", <<>>, TRUE, <<>>, FALSE, <<>>, "")

---------------------------------------------------------------------------
(* Argument vectors of src/main.py.                                        *)

MutCliConvertCmd(ff, file, out) ==
    <<ff, "-i", ToStr(file), "-progress", "pipe:1", ToStr(out)>>
CliConvertCmd(ff, file, out) ==
    <<ff, "-i", ToStr(file), "-y", "-progress", "pipe:1", ToStr(out)>>
CliExtractCmd(ff, file, out) ==
    <<ff, "-i", ToStr(file), "-vn", "-acodec", "libmp3lame", "-ab", "192k",
      "-y", "-progress", "pipe:1", ToStr(out)>>
CliCompressCmd(ff, file, out) ==
    <<ff, "-i", ToStr(file), "-vcodec", "libx264", "-crf", "28", "-y", ToStr(out)>>
CliCutCmd(ff, file, start, duration, out) ==
    <<ff, "-i", ToStr(file), "-ss", ToStr(start), "-t", ToStr(duration),
      "-c", "copy", "-y", ToStr(out)>>
CliSplitTimeCmd(ff, file, segment_time, pattern) ==
    <<ff, "-i", ToStr(file), "-c", "copy", "-map", "0",
      "-segment_time", segment_time, "-f", "segment",
      "-reset_timestamps", "1", "-progress", "pipe:1", ToStr(pattern)>>
CliSplitSizeCmd(ff, file, size_bytes, pattern) ==
    <<ff, "-i", ToStr(file), "-c", "copy", "-map", "0", "-f", "segment",
      "-segment_size", IntStr(size_bytes), "-reset_timestamps", "1",
      "-progress", "pipe:1", ToStr(pattern)>>
CliProbeCmd(ffprobe, file) ==
    <<ffprobe, "-v", "error", "-show_entries", "format=duration",
      "-of", "default=noprint_wrappers=1:nokey=1", ToStr(file)>>
CliFixCmd(ff, file, out) ==
    <<ff, "-i", ToStr(file), "-c", "copy", "-map", "0", "-ignore_errors",
      "-y", "-progress", "pipe:1", ToStr(out)>>
CliAltFixCmd(ff, file, out) ==
    <<ff, "-i", ToStr(file), "-c:v", "libx264", "-c:a", "aac", "-crf", "23",
      "-preset", "fast", "-ignore_errors", "-y", "-progress", "pipe:1",
      ToStr(out)>>

\* ffmpeg_path.replace("ffmpeg", "ffprobe")
ProbePath(ff) == IF ff = "ffmpeg" THEN "ffprobe" ELSE ff

\* str(total_duration / int(num_parts))
QuotientStr(total, parts) == FloatStr(FloatDiv(total, parts))

---------------------------------------------------------------------------
(* The files and the inputs of a session.                                  *)

FileA == <<"a", ".", "m", "p", "4">>     \* a media file
FileZ == <<"z", ".", "m", "p", "4">>     \* a path that does not exist
InitialFiles == {FileA}
NoFile == <<>>                           \* current_file = None

\* the paths a user types: the file at hand, a missing one, and the
\* converted copy of the file (missing until a conversion has written it)
KnownPaths == InitialFiles \cup {FileZ, ConvertOutput(FileA, Mp4)}
\* how a path may be typed or dropped into the terminal
RawForms(p) == {p, <<"\"">> \o p \o <<"\"">>, <<"'">> \o p \o <<"'">>, <<" ">> \o p}
RawInputs == UNION {RawForms(p) : p \in KnownPaths} \cup {<<>>}

MutCleanPrompt(raw) == Strip(Strip(Strip(raw, Whitespace), {"\""}), {"'"})
\* the cleaning of the initial prompt
CleanPrompt(raw) ==
    LET a == Strip(raw, Whitespace)
        b == Strip(Strip(Strip(a, {"\""}), {"'"}), Whitespace)
    IN  ReplaceEscapedSpaces(b)
\* the cleaning of menu choice 9
CleanSelect(raw) == Strip(Strip(Strip(raw, Whitespace), {"\""}), {"'"})

MutExists(files, p) == TRUE
\* os.path.exists(p)
Exists(files, p) == p \in files

MutSelected(files, path, old) == path
\* "if os.path.exists(path): current_file = path": the file selected after
\* an attempt to load path
Selected(files, path, old) == IF Exists(files, path) THEN path ELSE old

TimeInputs == {<<>>, <<"3", "0">>}            \* start, duration, segment time
ValueInputs == {<<>>, <<"x">>, <<"1">>, <<"2">>}  \* size in MB, number of parts
SplitChoices == {"1", "2", "3", "4"}
ProbeOutputs == {-1, 0, 7}               \* ffprobe's stdout: unparsable (-1) or seconds
MiB == 1048576

---------------------------------------------------------------------------
(* src/main.py: main() up to the menu.                                     *)

\* the status label: what it says, and the slice of the child's error text
\* in the message box shown with it
Label(text, shown) == [text |-> text, shown |-> shown]

SessionIdle ==
    /\ workers = <<>> /\ dialog = "none" /\ progress_bar = FALSE
    /\ progress_label = Label("Ready", NoShown)

\* check_ffmpeg
CheckFfmpeg(available) == IF available THEN "ffmpeg" ELSE None

\* main(), lines 893-917 and 943-946: the availability check and argv[1]
CliStart(argv) ==
    /\ prog = "cli" /\ pc = "start"
    /\ ffmpeg_path' = CheckFfmpeg(tool_available)
    /\ IF ffmpeg_path' = None
       THEN pc' = "done" /\ ret' = <<1>> /\ current_file' = NoFile
       ELSE /\ ret' = ret
            /\ IF Len(argv) > 0 /\ Exists(fs, argv[1])
               THEN current_file' = argv[1] /\ pc' = "menu"
               ELSE current_file' = NoFile /\ pc' = "prompt"
    /\ last' = Done("start", current_file', TRUE, <<>>, ffmpeg_path' # None, <<>>,
                    IF ffmpeg_path' = None THEN "FFmpeg not found!"
                    ELSE IF current_file' # NoFile THEN "Loaded:" ELSE "")
    /\ UNCHANGED <<prog, tool_available, fs, nops, workers, dialog,
                   progress_bar, progress_label>>

\* main(), lines 919-946: the prompt for a path
CliPrompt(raw) ==
    /\ prog = "cli" /\ pc = "prompt"
    /\ LET file_input == CleanPrompt(raw)
       IN  IF file_input = <<>> \/ ~Exists(fs, file_input)
           THEN pc' = "done" /\ ret' = <<1>> /\ current_file' = current_file
           ELSE pc' = "menu" /\ ret' = ret /\ current_file' = file_input
    /\ last' = Done("prompt", CleanPrompt(raw), TRUE, <<>>, pc' = "menu", <<>>,
                    IF pc' = "menu" THEN "Loaded:"
                    ELSE IF CleanPrompt(raw) = <<>> THEN "No file path provided!"
                    ELSE "File not found:")
    /\ UNCHANGED <<prog, tool_available, ffmpeg_path, fs, nops, workers,
                   dialog, progress_bar, progress_label>>

---------------------------------------------------------------------------
(* src/main.py: the operations of the menu.  Each handler is one step: it  *)
(* launches its child processes, waits for them and returns.               *)

\* an operation ran to its return statement
CliReturn(rec, files) ==
    /\ last' = rec /\ fs' = files /\ nops' = nops + 1
    /\ pc' = "pause"
    /\ UNCHANGED <<prog, ret, tool_available, ffmpeg_path, current_file,
                   workers, dialog, progress_bar, progress_label>>

\* os.path.getsize(input_file) outside the try block raised: main() dies
CliCrash(op) ==
    /\ last' = Done(op, current_file, FALSE, <<>>, FALSE, <<>>, "Traceback")
    /\ pc' = "crashed" /\ ret' = <<1>> /\ nops' = nops + 1
    /\ UNCHANGED <<prog, tool_available, ffmpeg_path, current_file, fs,
                   workers, dialog, progress_bar, progress_label>>

CliAtMenu == prog = "cli" /\ pc = "menu" /\ nops < MaxOps

\* the files after the tool ran: it may or may not have written its output
Written(files, out, made) == IF made THEN files \cup {out} ELSE files

\* get_file_info: prints the whole error text of the probing tool
CliInfo ==
    /\ CliAtMenu
    /\ \E rc \in ExitCodes, err \in ErrLens :
         CliReturn(Done("info", current_file, Exists(fs, current_file),
                        <<Run("ffprobe", "info",
                              <<ProbePath(ffmpeg_path), ToStr(current_file)>>,
                              current_file, <<>>, rc, err,
                              [src |-> "stderr", lo |-> 0, hi |-> err])>>,
                        TRUE, <<>>, ""),
                   fs)

\* lines 169-196 (and 274-301): the branch on the exit status after a
\* streamed run
StreamedResult(rc, files, out) == rc = 0 /\ Exists(files, out)
StreamedSaid(rc, files, out) ==
    IF rc # 0 THEN "failed with return code"
    ELSE IF Exists(files, out) THEN "complete!" ELSE "Output file was not created!"
StreamedShown(rc, err) == IF rc = 0 THEN NoShown ELSE TailIfAny(err)

\* convert_file
CliConvert(fmt) ==
    /\ CliAtMenu
    /\ IF ~Exists(fs, current_file) THEN CliCrash("convert")
       ELSE \E rc \in ExitCodes, made \in BOOLEAN : \E err \in ErrOf(rc) :
              LET out == ConvertOutput(current_file, fmt)
                  files == Written(fs, out, made)
                  run == Run("ffmpeg", "convert",
                             CliConvertCmd(ffmpeg_path, current_file, out),
                             current_file, out, rc, err, StreamedShown(rc, err))
              IN  CliReturn(Done("convert", current_file, TRUE, <<run>>,
                                 StreamedResult(rc, files, out), out,
                                 StreamedSaid(rc, files, out)),
                            files)

\* extract_audio
CliExtract ==
    /\ CliAtMenu
    /\ IF ~Exists(fs, current_file) THEN CliCrash("extract")
       ELSE \E rc \in ExitCodes, made \in BOOLEAN : \E err \in ErrOf(rc) :
              LET out == AudioOutput(current_file)
                  files == Written(fs, out, made)
                  run == Run("ffmpeg", "extract",
                             CliExtractCmd(ffmpeg_path, current_file, out),
                             current_file, out, rc, err, StreamedShown(rc, err))
              IN  CliReturn(Done("extract", current_file, TRUE, <<run>>,
                                 StreamedResult(rc, files, out), out,
                                 StreamedSaid(rc, files, out)),
                            files)

\* lines 325-337 (and 369-380): after subprocess.run; on exit 0 the sizes
\* are read, which raises when the output is missing
CapturedShown(rc, err) == IF rc # 0 THEN HeadSlice(err) ELSE NoShown
CapturedSaid(rc, ok) == IF rc # 0 THEN "failed!" ELSE IF ok THEN "Saved to" ELSE "Error:"

\* compress_video: the size ratio also raises when the input is an empty
\* file (original_size = 0)
CliCompress ==
    /\ CliAtMenu
    /\ IF ~Exists(fs, current_file) THEN CliCrash("compress")
       ELSE \E rc \in ExitCodes, made \in BOOLEAN, empty \in BOOLEAN :
              \E err \in ErrOf(rc) :
              LET out == CompressOutput(current_file)
                  files == Written(fs, out, made)
                  run == Run("ffmpeg", "compress",
                             CliCompressCmd(ffmpeg_path, current_file, out),
                             current_file, out, rc, err, CapturedShown(rc, err))
                  ok == /\ rc = 0 /\ Exists(files, out)
                        /\ ~empty
              IN  CliReturn(Done("compress", current_file, TRUE, <<run>>, ok, out,
                                 CapturedSaid(rc, ok)),
                            files)

\* cut_video
CliCut(start, duration) ==
    /\ CliAtMenu
    /\ IF start = <<>> \/ duration = <<>>
       THEN CliReturn(Done("cut", current_file, Exists(fs, current_file), <<>>,
                           FALSE, <<>>, "Invalid input!"), fs)
       ELSE \E rc \in ExitCodes, made \in BOOLEAN : \E err \in ErrOf(rc) :
              LET out == CutOutput(current_file)
                  files == Written(fs, out, made)
                  run == Run("ffmpeg", "cut",
                             CliCutCmd(ffmpeg_path, current_file, start, duration, out),
                             current_file, out, rc, err, CapturedShown(rc, err))
                  ok == rc = 0 /\ Exists(files, out)
              IN  CliReturn(Done("cut", current_file, Exists(fs, current_file),
                                 <<run>>, ok, out, CapturedSaid(rc, ok)),
                            files)

\* split_video, lines 642-666: the branch on the exit status.  On failure
\* result.stderr is read from an object that has only a returncode, which
\* raises AttributeError: the handler prints that exception instead
SplitShown(rc, err) == IF rc = 0 THEN NoShown ELSE ExceptionShown
SplitResult(rc, parts) == rc = 0
SplitSaid(rc) == IF rc = 0 THEN "Video split complete!" ELSE "Error:"

\* the segment files the tool leaves behind when it wrote k of them
Segments(file, k) == {SplitPart(file, n) : n \in 0..(k - 1)}
\* "Created {len(parts)} parts": the count the glob gives after the run, kept
\* with the number of segments that run wrote
Created(files, file, k) ==
    [parts |-> Cardinality(GlobParts(files, file)), made |-> k]
\* the record of a split that reported its parts
SplitDone(rec, report) ==
    [op |-> rec.op, input |-> rec.input, existed |-> rec.existed,
     runs |-> rec.runs, result |-> rec.result, out |-> rec.out,
     said |-> rec.said, created |-> report]

\* split_video: the directory is made before the method is read
CliSplit(choice, value) ==
    /\ CliAtMenu
    /\ LET file == current_file
           dir == SplitDir(file)
           pattern == SplitPattern(file)
           files0 == fs \cup {dir}
           existed == Exists(fs, file)
           Reject == CliReturn(Done("split", file, existed, <<>>, FALSE, <<>>,
                                    "Invalid"), files0)
           Launch(kind, cmd, before) ==
               \E rc \in ExitCodes, k \in 0..MaxParts : \E err \in ErrOf(rc) :
                 LET files == files0 \cup Segments(file, k)
                     run == Run("ffmpeg", kind, cmd, file, pattern, rc, err,
                                SplitShown(rc, err))
                     rec == Done("split", file, existed, before \o <<run>>,
                                 SplitResult(rc, GlobParts(files, file)), pattern,
                                 SplitSaid(rc))
                 IN  CliReturn(IF rc = 0
                               THEN SplitDone(rec, Created(files, file, k))
                               ELSE rec,
                               files)
       IN  CASE choice = "1" ->
                  IF value = <<>> THEN Reject
                  ELSE Launch("split_time",
                              CliSplitTimeCmd(ffmpeg_path, file, ToStr(value), pattern),
                              <<>>)
             [] choice = "2" ->
                  IF ~IsDigit(value) THEN Reject
                  ELSE Launch("split_size",
                              CliSplitSizeCmd(ffmpeg_path, file, ParseInt(value) * MiB,
                                              pattern),
                              <<>>)
             [] choice = "3" ->
                  IF ~PartsAccepted(value) THEN Reject
                  ELSE \E prc \in ExitCodes, total \in ProbeOutputs :
                         LET probe == Run("ffprobe", "probe",
                                          CliProbeCmd(ProbePath(ffmpeg_path), file),
                                          file, <<>>, prc, 0, NoShown)
                         IN  IF prc # 0 \/ total < 0
                             THEN CliReturn(Done("split", file, existed, <<probe>>,
                                                 FALSE, <<>>,
                                                 IF prc # 0
                                                 THEN "Could not get video duration!"
                                                 ELSE "Error:"), files0)
                             ELSE Launch("split_parts",
                                         CliSplitTimeCmd(ffmpeg_path, file,
                                             QuotientStr(total, ParseInt(value)),
                                             pattern),
                                         <<probe>>)
             [] OTHER -> Reject

\* fix_broken_video, lines 768-778: the fallback is tried when the first
\* attempt exits non-zero
MutNeedsFallback(rc) == TRUE
NeedsFallback(rc) == rc # 0

\* try_alternative_repair, lines 848-866
AltResult(rc, files, out) == rc = 0 /\ Exists(files, out)
AltShown(rc, files, out, err) ==
    IF AltResult(rc, files, out) THEN NoShown ELSE TailIfAny(err)

\* fix_broken_video and try_alternative_repair
CliFix ==
    /\ CliAtMenu
    /\ IF ~Exists(fs, current_file) THEN CliCrash("fix")
       ELSE \E rc \in ExitCodes, made \in BOOLEAN : \E err \in ErrOf(rc) :
              LET file == current_file
                  out == FixedOutput(file)
                  files == Written(fs, out, made)
                  first == Run("ffmpeg", "fix", CliFixCmd(ffmpeg_path, file, out),
                               file, out, rc, err, StreamedShown(rc, err))
              IN  IF ~NeedsFallback(rc)
                  THEN CliReturn(Done("fix", file, TRUE, <<first>>,
                                      StreamedResult(rc, files, out), out,
                                      StreamedSaid(rc, files, out)), files)
                  ELSE \E rc2 \in ExitCodes, made2 \in BOOLEAN : \E err2 \in ErrOf(rc2) :
                         LET files2 == Written(files, out, made2)
                             second == Run("ffmpeg", "fix_alt",
                                           CliAltFixCmd(ffmpeg_path, file, out),
                                           file, out, rc2, err2,
                                           AltShown(rc2, files2, out, err2))
                         IN  CliReturn(Done("fix", file, TRUE, <<first, second>>,
                                            AltResult(rc2, files2, out), out,
                                            IF AltResult(rc2, files2, out)
                                            THEN "Alternative repair successful!"
                                            ELSE "Alternative repair also failed!"),
                                       files2)

\* menu choice 9
CliSelect(raw) ==
    /\ prog = "cli" /\ pc = "menu"
    /\ LET file_input == CleanSelect(raw)
       IN  /\ current_file' = Selected(fs, file_input, current_file)
           /\ last' = Done("select", file_input, Exists(fs, file_input), <<>>,
                           Exists(fs, file_input), <<>>,
                           IF Exists(fs, file_input) THEN "Loaded:"
                           ELSE "File not found!")
    /\ pc' = "pause"
    /\ UNCHANGED <<prog, ret, tool_available, ffmpeg_path, fs, nops,
                   workers, dialog, progress_bar, progress_label>>

\* any other text at the menu
CliInvalidChoice ==
    /\ prog = "cli" /\ pc = "menu"
    /\ last' = Done("invalid", current_file, TRUE, <<>>, FALSE, <<>>,
                    "Invalid choice!")
    /\ pc' = "pause"
    /\ UNCHANGED <<prog, ret, tool_available, ffmpeg_path, current_file,
                   fs, nops, workers, dialog, progress_bar, progress_label>>

\* line 985: "Press Enter to continue...", then the menu is shown again
CliContinue ==
    /\ prog = "cli" /\ pc = "pause"
    /\ pc' = "menu" /\ last' = NoOp
    /\ UNCHANGED <<prog, ret, tool_available, ffmpeg_path, current_file,
                   fs, nops, workers, dialog, progress_bar, progress_label>>

\* menu choice 0
CliExit ==
    /\ prog = "cli" /\ pc = "menu"
    /\ pc' = "done" /\ ret' = <<0>>
    /\ UNCHANGED <<prog, tool_available, ffmpeg_path, current_file, fs, nops,
                   last, workers, dialog, progress_bar, progress_label>>

---------------------------------------------------------------------------
(* ffmpeg_app_simple.py and ffmpeg_app.py: the windowed front ends.  The   *)
(* handlers run on the main thread; every command runs on a worker thread  *)
(* of its own, which blocks in subprocess.run while its child executes.    *)

GuiPrograms == {"gui_simple", "gui"}

GuiConvertCmd(ff, file, out) == <<ff, "-i", ToStr(file), "-y", ToStr(out)>>
GuiExtractCmd(ff, file, out) ==
    <<ff, "-i", ToStr(file), "-vn", "-acodec", "libmp3lame", "-ab", "192k",
      "-y", ToStr(out)>>
GuiCompressCmd(ff, file, out) ==
    <<ff, "-i", ToStr(file), "-vcodec", "libx264", "-crf", "28", "-y", ToStr(out)>>
GuiCutCmd(ff, file, start, duration, out) ==
    <<ff, "-i", ToStr(file), "-ss", ToStr(start), "-t", ToStr(duration),
      "-c", "copy", "-y", ToStr(out)>>
GuiSplitTimeCmd(ff, file, segment_time, pattern) ==
    <<ff, "-i", ToStr(file), "-c", "copy", "-map", "0",
      "-segment_time", segment_time, "-f", "segment",
      "-reset_timestamps", "1", ToStr(pattern)>>
GuiSplitSizeCmd(ff, file, size_bytes, pattern) ==
    <<ff, "-i", ToStr(file), "-c", "copy", "-map", "0", "-f", "segment",
      "-segment_size", IntStr(size_bytes), "-reset_timestamps", "1",
      ToStr(pattern)>>

\* a live worker thread: its command, and where it is ("new": started, not
\* yet in subprocess.run; "child": blocked while its child process runs);
\* a thread that has returned is no longer in the list
Worker(kind, cmd, input, out) ==
    [kind |-> kind, cmd |-> cmd, input |-> input, out |-> out, st |-> "new"]

Remove(seq, i) == SubSeq(seq, 1, i - 1) \o SubSeq(seq, i + 1, Len(seq))

GuiIdle == prog \in GuiPrograms /\ pc = "idle" /\ dialog = "none"

\* a handler returned: what it did, the message box it showed (if any)
GuiHandled(rec, box) ==
    /\ last' = rec
    /\ UNCHANGED <<prog, ret, tool_available>>

\* __init__ and check_ffmpeg
GuiStart ==
    /\ prog \in GuiPrograms /\ pc = "start"
    /\ pc' = "idle"
    /\ ffmpeg_path' = CheckFfmpeg(tool_available)
    /\ LET box == IF ffmpeg_path' = None THEN "FFmpeg Not Found" ELSE ""
       IN  GuiHandled(Done("start", NoFile, TRUE, <<>>, ffmpeg_path' # None, <<>>, box),
                      box)
    /\ UNCHANGED <<current_file, fs, nops, workers, dialog, progress_bar,
                   progress_label>>

\* ffmpeg_app.py, load_file: the cleaning of a dropped path
CleanDrop(raw) == Strip(Strip(Strip(raw, {"{", "}"}), {"\""}), {"'"})
\* what load_file tests and stores
LoadPath(raw) == IF prog = "gui" THEN CleanDrop(raw) ELSE raw

\* browse_file / drop_file, then load_file
GuiLoad(raw) ==
    /\ GuiIdle
    /\ raw # <<>>
    /\ LET file_path == LoadPath(raw)
           found == Exists(fs, file_path)
           box == IF found THEN "" ELSE "File not found!"
       IN  /\ current_file' = Selected(fs, file_path, current_file)
           /\ progress_label' = IF found THEN Label("Loaded", NoShown) ELSE progress_label
           /\ GuiHandled(Done("load", file_path, found, <<>>, found, <<>>, box), box)
    /\ UNCHANGED <<pc, ffmpeg_path, fs, nops, workers, dialog, progress_bar>>

\* get_file_info: runs the probing tool on the main thread
GuiInfo ==
    /\ GuiIdle
    /\ nops < MaxOps
    /\ nops' = nops + 1
    /\ LET file == current_file
           Answer(runs, ok, box) ==
               GuiHandled(Done("info", file, Exists(fs, file), runs, ok, <<>>, box),
                          box)
           Probe(kind, cmd, rc, err) ==
               Run("ffprobe", kind, cmd, file, <<>>, rc, err,
                   [src |-> "stderr", lo |-> 0, hi |-> err])
       IN  IF file = NoFile THEN Answer(<<>>, FALSE, "Please select a file first!")
           ELSE IF ffmpeg_path = None THEN Answer(<<>>, FALSE, "An error occurred")
           ELSE \E rc \in ExitCodes, err \in {0, 300} :
                  IF prog = "gui_simple"
                  THEN LET run == Probe("info", <<ProbePath(ffmpeg_path), ToStr(file)>>,
                                        rc, err)
                       IN  IF rc = 0 \/ err > 0
                           THEN Answer(<<run>>, TRUE, "")
                           ELSE Answer(<<run>>, FALSE, "Could not get file information")
                  ELSE LET quiet == Probe("info",
                                          <<ProbePath(ffmpeg_path), "-v", "quiet",
                                            "-print_format", "json", "-show_format",
                                            "-show_streams", ToStr(file)>>, rc, 0)
                           plain == Probe("info",
                                          <<ProbePath(ffmpeg_path), ToStr(file)>>, 0, err)
                       IN  IF rc = 0
                           THEN Answer(<<quiet, plain>>, TRUE, "File Information")
                           ELSE Answer(<<quiet>>, FALSE, "Could not get file information")
    /\ UNCHANGED <<pc, ffmpeg_path, current_file, fs, workers, dialog,
                   progress_bar, progress_label>>

\* run_ffmpeg_command, lines 276-284 and 318-319: the two checks, then a
\* new thread is started
RunFfmpegCommand(op, kind, cmd, out) ==
    LET file == current_file
        box == IF ffmpeg_path = None THEN "FFmpeg is not available!"
               ELSE IF file = NoFile THEN "Please select a file first!" ELSE ""
    IN  /\ workers' = IF box = "" THEN Append(workers, Worker(kind, cmd, file, out))
                      ELSE workers
        /\ GuiHandled(Done(op, file, Exists(fs, file), <<>>, box = "", out, box), box)

\* the three buttons that return at once when no file is selected:
\* ffmpeg_app.py shows an error first, ffmpeg_app_simple.py shows nothing
NoFileBox == IF prog = "gui" THEN "Please select a file first!" ELSE ""

GuiCanPress == nops < MaxOps

\* convert_file
GuiConvert(fmt) ==
    /\ GuiIdle /\ GuiCanPress
    /\ IF current_file = NoFile
       THEN /\ GuiHandled(Done("convert", NoFile, FALSE, <<>>, FALSE, <<>>, NoFileBox),
                          NoFileBox)
            /\ workers' = workers
       ELSE LET out == ConvertOutput(current_file, fmt)
            IN  RunFfmpegCommand("convert", "convert",
                                 GuiConvertCmd(ffmpeg_path, current_file, out), out)
    /\ nops' = nops + 1
    /\ UNCHANGED <<pc, ffmpeg_path, current_file, fs, dialog, progress_bar,
                   progress_label>>

\* extract_audio
GuiExtract ==
    /\ GuiIdle /\ GuiCanPress
    /\ IF current_file = NoFile
       THEN /\ GuiHandled(Done("extract", NoFile, FALSE, <<>>, FALSE, <<>>, NoFileBox),
                          NoFileBox)
            /\ workers' = workers
       ELSE LET out == AudioOutput(current_file)
            IN  RunFfmpegCommand("extract", "extract",
                                 GuiExtractCmd(ffmpeg_path, current_file, out), out)
    /\ nops' = nops + 1
    /\ UNCHANGED <<pc, ffmpeg_path, current_file, fs, dialog, progress_bar,
                   progress_label>>

\* compress_video
GuiCompress ==
    /\ GuiIdle /\ GuiCanPress
    /\ IF current_file = NoFile
       THEN /\ GuiHandled(Done("compress", NoFile, FALSE, <<>>, FALSE, <<>>, NoFileBox),
                          NoFileBox)
            /\ workers' = workers
       ELSE LET out == CompressOutput(current_file)
            IN  RunFfmpegCommand("compress", "compress",
                                 GuiCompressCmd(ffmpeg_path, current_file, out), out)
    /\ nops' = nops + 1
    /\ UNCHANGED <<pc, ffmpeg_path, current_file, fs, dialog, progress_bar,
                   progress_label>>

\* cut_video (ffmpeg_app_simple.py only) and split_video: the button opens
\* a modal dialog
GuiOpenDialog(which) ==
    /\ GuiIdle /\ GuiCanPress
    /\ which = "cut" => prog = "gui_simple"
    /\ IF current_file = NoFile
       THEN /\ GuiHandled(Done(which, NoFile, FALSE, <<>>, FALSE, <<>>,
                               "Please select a file first!"),
                          "Please select a file first!")
            /\ dialog' = dialog
       ELSE /\ GuiHandled(Done(which, current_file, Exists(fs, current_file), <<>>,
                               FALSE, <<>>, ""), "")
            /\ dialog' = which
    /\ nops' = nops + 1
    /\ UNCHANGED <<pc, ffmpeg_path, current_file, fs, workers, progress_bar,
                   progress_label>>

\* the dialog's window is closed without confirming
GuiCloseDialog ==
    /\ prog \in GuiPrograms /\ dialog # "none"
    /\ dialog' = "none"
    /\ last' = Done("close", current_file, Exists(fs, current_file), <<>>, FALSE,
                    <<>>, "")
    /\ UNCHANGED <<prog, pc, ret, tool_available, ffmpeg_path, current_file, fs,
                   nops, workers, progress_bar, progress_label>>

\* cut_video.execute_cut
GuiCutConfirm(start, duration) ==
    /\ prog \in GuiPrograms /\ dialog = "cut"
    /\ IF start = <<>> \/ duration = <<>>
       THEN /\ GuiHandled(Done("cut", current_file, Exists(fs, current_file), <<>>,
                               FALSE, <<>>, "Please fill in both fields!"),
                          "Please fill in both fields!")
            /\ UNCHANGED <<workers, dialog>>
       ELSE LET out == CutOutput(current_file)
            IN  /\ dialog' = "none"
                /\ RunFfmpegCommand("cut", "cut",
                                    GuiCutCmd(ffmpeg_path, current_file, start,
                                              duration, out), out)
    /\ UNCHANGED <<pc, ffmpeg_path, current_file, fs, nops, progress_bar,
                   progress_label>>

\* split_video.execute_split
GuiSplitConfirm(method, raw) ==
    /\ prog \in GuiPrograms /\ dialog = "split"
    /\ LET file == current_file
           value == Strip(raw, Whitespace)
           dir == SplitDir(file)
           pattern == SplitPattern(file)
           files0 == fs \cup {dir}
           Refuse(files, runs, box) ==
               /\ fs' = files
               /\ GuiHandled(Done("split", file, Exists(fs, file), runs, FALSE,
                                  <<>>, box), box)
               /\ UNCHANGED <<workers, dialog>>
           Start(kind, cmd, runs) ==
               /\ fs' = files0
               /\ dialog' = "none"
               /\ workers' = Append(workers, Worker(kind, cmd, file, pattern))
               /\ GuiHandled(Done("split", file, Exists(fs, file), runs, TRUE,
                                  pattern, ""), "")
       IN  IF value = <<>> THEN Refuse(fs, <<>>, "Please enter a value!")
           ELSE CASE method = "time" ->
                       Start("split_time",
                             GuiSplitTimeCmd(ffmpeg_path, file, ToStr(value), pattern),
                             <<>>)
                  [] method = "size" ->
                       IF ~IsDigit(value)
                       THEN Refuse(files0, <<>>, "Size must be a number!")
                       ELSE Start("split_size",
                                  GuiSplitSizeCmd(ffmpeg_path, file,
                                                  ParseInt(value) * MiB, pattern),
                                  <<>>)
                  [] method = "parts" ->
                       IF ~PartsAccepted(value)
                       THEN Refuse(files0, <<>>, "Number of parts must be 2 or more!")
                       ELSE IF ffmpeg_path = None
                       THEN Refuse(files0, <<>>, "An error occurred")
                       ELSE \E prc \in ExitCodes, total \in ProbeOutputs :
                              LET probe == Run("ffprobe", "probe",
                                               CliProbeCmd(ProbePath(ffmpeg_path), file),
                                               file, <<>>, prc, 0, NoShown)
                              IN  IF prc # 0
                                  THEN Refuse(files0, <<probe>>,
                                              "Could not get video duration!")
                                  ELSE IF total < 0
                                  THEN Refuse(files0, <<probe>>, "An error occurred")
                                  ELSE Start("split_parts",
                                             GuiSplitTimeCmd(ffmpeg_path, file,
                                                 QuotientStr(total, ParseInt(value)),
                                                 pattern),
                                             <<probe>>)
    /\ UNCHANGED <<pc, ffmpeg_path, current_file, nops, progress_bar,
                   progress_label>>

\* error_msg = result.stderr or "Unknown error"
UnknownShown == [src |-> "unknown", lo |-> 0, hi |-> 0]

IsSplit(w) == w.kind \in {"split_time", "split_size", "split_parts"}

\* execute / run_split up to subprocess.run: the label and the bar are set
\* and the child is launched; a command without a program raises at once
WorkerBegin(i) ==
    /\ prog \in GuiPrograms /\ i \in DOMAIN workers
    /\ workers[i].st = "new"
    /\ IF workers[i].cmd[1] = None
       THEN /\ workers' = Remove(workers, i)
            /\ progress_bar' = FALSE
            /\ progress_label' = Label("Error occurred", ExceptionShown)
       ELSE /\ workers' = [workers EXCEPT ![i].st = "child"]
            /\ progress_bar' = TRUE
            /\ progress_label' = Label("Processing", NoShown)
    /\ UNCHANGED <<prog, pc, ret, tool_available, ffmpeg_path, current_file, fs,
                   nops, last, dialog>>

GuiErrLens == {0, 800}

\* the child exits; execute / run_split stop the bar and report.  The
\* children considered leave their output behind exactly when they exit
\* with status 0 (a split: any number of segments up to MaxParts)
WorkerEnd(i) ==
    /\ prog \in GuiPrograms /\ i \in DOMAIN workers
    /\ workers[i].st = "child"
    /\ \E rc \in ExitCodes, k \in 0..MaxParts :
       \E err \in (IF rc = 0 THEN {0} ELSE GuiErrLens) :
         LET w == workers[i]
             files == IF IsSplit(w) THEN fs \cup Segments(w.input, k)
                      ELSE Written(fs, w.out, k > 0)
             shown == IF rc = 0 THEN NoShown
                      ELSE IF err = 0 /\ ~IsSplit(w) THEN UnknownShown
                      ELSE HeadSlice(err)
         IN  /\ k > 0 => rc = 0
             /\ IsSplit(w) \/ k = (IF rc = 0 THEN 1 ELSE 0)
             /\ fs' = files
             /\ workers' = Remove(workers, i)
             /\ progress_bar' = FALSE
             /\ progress_label' =
                    IF rc = 0 /\ IsSplit(w)
                    THEN [text |-> "Success", shown |-> shown,
                          created |-> Created(files, w.input, k)]
                    ELSE Label(IF rc = 0 THEN "Success"
                               ELSE IF IsSplit(w) /\ prog = "gui_simple"
                               THEN "Split failed" ELSE "Error occurred",
                               shown)
    /\ UNCHANGED <<prog, pc, ret, tool_available, ffmpeg_path, current_file,
                   nops, last, dialog>>

\* what may be typed into the split dialog
GuiValueInputs(method) ==
    CASE method = "time" -> TimeInputs
      [] method = "size" -> {<<"x">>, <<"2">>}
      [] method = "parts" -> {<<"1">>, <<"2">>}

\* what may be picked in the file dialog or dropped on the window
GuiPaths == InitialFiles \cup {FileZ}
GuiRawInputs ==
    GuiPaths \cup (IF prog = "gui" THEN {<<"{">> \o p \o <<"}">> : p \in GuiPaths}
                   ELSE {})

---------------------------------------------------------------------------
(* mini_ffmpeg.py: one subcommand per process.                             *)

MiniConvertCmd(ffmpeg, input_file, output_file, vcodec, acodec) ==
    <<ffmpeg, "-y", "-i", ToStr(input_file), "-c:v", vcodec, "-c:a", acodec,
      ToStr(output_file)>>
MiniTrimCmd(ffmpeg, input_file, output_file, start, duration, copy) ==
    <<ffmpeg, "-y", "-ss", ToStr(start), "-t", ToStr(duration),
      "-i", ToStr(input_file)>>
    \o (IF copy THEN <<"-c", "copy">> ELSE <<>>) \o <<ToStr(output_file)>>
MiniExtractCmd(ffmpeg, input_file, output_file, bitrate) ==
    <<ffmpeg, "-y", "-i", ToStr(input_file), "-vn", "-acodec", "mp3",
      "-b:a", bitrate, ToStr(output_file)>>
MiniSplitCmd(ffmpeg, input_file, out_pattern, segment_time) ==
    <<ffmpeg, "-y", "-i", ToStr(input_file), "-c", "copy", "-map", "0",
      "-f", "segment", "-segment_time", IntStr(segment_time),
      "-reset_timestamps", "1", ToStr(out_pattern)>>
MiniInfoCmd(file) ==
    <<"ffprobe", "-v", "quiet", "-print_format", "json", "-show_format",
      "-show_streams", ToStr(file)>>

OutB == <<"b", ".", "m", "p", "4">>              \* an output named by the user
OutPattern == <<"p", "%", "0", "3", "d", ".", "m", "p", "4">>
\* process.returncode: the child's exit status, or minus the number of the
\* signal that ended it
MiniExitCodes == {0, 1, 2, 255, -9}
\* the exit status of a program that ends with sys.exit(code)
ExitStatus(code) == code % 256
MutMiniExitCode(returncode) == IF returncode = 0 THEN 0 ELSE 1
\* run_ffmpeg: sys.exit(process.returncode)
MiniExitCode(returncode) == returncode

\* shutil.which("ffmpeg")
Which(available) == IF available THEN "/usr/bin/ffmpeg" ELSE None

\* the process ends: sys.exit(code), or main returns
MiniEnd(rec, files, code) ==
    /\ pc' = "done" /\ ret' = <<ExitStatus(code)>>
    /\ last' = rec /\ fs' = files
    /\ nops' = nops + 1
    /\ UNCHANGED <<prog, tool_available, ffmpeg_path, current_file, workers,
                   dialog, progress_bar, progress_label>>

\* info
MiniInfo(file) ==
    /\ prog = "mini" /\ pc = "start"
    /\ IF ~Exists(fs, file)
       THEN MiniEnd(Done("info", file, FALSE, <<>>, FALSE, <<>>, "File not found"), fs, 1)
       ELSE IF ~tool_available
       THEN MiniEnd(Done("info", file, TRUE, <<>>, FALSE, <<>>, "Traceback"), fs, 1)
       ELSE \E rc \in ExitCodes :
              MiniEnd(Done("info", file, TRUE,
                           <<Run("ffprobe", "info", MiniInfoCmd(file), file, <<>>,
                                 rc, 0, NoShown)>>,
                           rc = 0, <<>>, IF rc = 0 THEN "" ELSE "ffprobe failed"),
                      fs, IF rc = 0 THEN 0 ELSE 1)

\* find_ffmpeg, then run_ffmpeg(cmd): the child's error stream is copied
\* line by line, and a non-zero status becomes the program's status
MiniRun(op, cmd, input_file, output_file) ==
    /\ prog = "mini" /\ pc = "start"
    /\ LET ffmpeg == Which(tool_available)
       IN  IF ffmpeg = None
           THEN MiniEnd(Done(op, input_file, Exists(fs, input_file), <<>>, FALSE,
                             output_file, "FFmpeg not found"), fs, 1)
           ELSE \E rc \in MiniExitCodes, made \in BOOLEAN :
                  MiniEnd(Done(op, input_file, Exists(fs, input_file),
                               <<Run("ffmpeg", op, cmd, input_file, output_file, rc,
                                     0, [src |-> "stderr", lo |-> 0, hi |-> 0])>>,
                               rc = 0, output_file,
                               IF rc = 0 THEN "Done." ELSE "FFmpeg exited with code"),
                          Written(fs, output_file, made),
                          IF rc = 0 THEN 0 ELSE MiniExitCode(rc))

MiniConvert(input_file, output_file) ==
    MiniRun("convert",
            MiniConvertCmd(Which(tool_available), input_file, output_file,
                           "copy", "copy"),
            input_file, output_file)
MiniTrim(input_file, output_file, start, duration, copy) ==
    MiniRun("cut",
            MiniTrimCmd(Which(tool_available), input_file, output_file, start,
                        duration, copy),
            input_file, output_file)
MiniExtract(input_file, output_file) ==
    MiniRun("extract",
            MiniExtractCmd(Which(tool_available), input_file, output_file, "192k"),
            input_file, output_file)
MiniSplit(input_file, out_pattern, segment_time) ==
    MiniRun("split_time",
            MiniSplitCmd(Which(tool_available), input_file, out_pattern,
                         segment_time),
            input_file, out_pattern)
\* no subcommand: parser.print_help()
MiniHelp ==
    /\ prog = "mini" /\ pc = "start"
    /\ MiniEnd(Done("help", NoFile, TRUE, <<>>, TRUE, <<>>, "usage"), fs, 0)

MiniInputs == InitialFiles \cup {FileZ}

---------------------------------------------------------------------------
(* split_video.py: splits one fixed recording into 60-second segments.     *)

ScriptFile ==
    <<"S", "c", "r", "e", "e", "n", " ", "R", "e", "c", "o", "r", "d",
    "i", "n", "g", " ", "2", "0", "2", "5", "-", "1", "0", "-", "2", "0",
    " ", "a", "t", " ", "1", "6", ".", "3", "1", ".", "3", "2", ".", "m",
    "o", "v">>
ScriptErrSliceLen == 200

ScriptSplitCmd(input_file, segment_time, pattern) ==
    <<"ffmpeg", "-i", ToStr(input_file), "-c", "copy", "-map", "0",
      "-segment_time", segment_time, "-f", "segment",
      "-reset_timestamps", "1", ToStr(pattern)>>

\* main, and split_video_by_time(video_file, "60")
ScriptMain ==
    /\ prog = "script" /\ pc = "start"
    /\ LET file == ScriptFile
           dir == SplitDir(file)
           pattern == SplitPattern(file)
           cmd == ScriptSplitCmd(file, "60", pattern)
           End(rec, files) ==
               /\ pc' = "done" /\ ret' = <<0>>
               /\ last' = rec /\ fs' = files /\ nops' = nops + 1
       IN  IF ~Exists(fs, file)
           THEN End(Done("split_time", file, FALSE, <<>>, FALSE, <<>>,
                         "File not found"), fs)
           ELSE IF ~tool_available
           THEN End(Done("split_time", file, TRUE, <<>>, FALSE, pattern, "Error"),
                    fs \cup {dir})
           ELSE \E rc \in ExitCodes, k \in 0..MaxParts : \E err \in ErrOf(rc) :
                  LET files == fs \cup {dir} \cup Segments(file, k)
                      rec == Done("split_time", file, TRUE,
                                  <<Run("ffmpeg", "split_time", cmd, file, pattern,
                                        rc, err,
                                        IF rc = 0 THEN NoShown
                                        ELSE [src |-> "stderr", lo |-> 0,
                                              hi |-> Min(err, ScriptErrSliceLen)])>>,
                                  rc = 0, pattern,
                                  IF rc = 0 THEN "Split complete!" ELSE "Split failed")
                  IN  End(IF rc = 0 THEN SplitDone(rec, Created(files, file, k))
                          ELSE rec,
                          files)
    /\ UNCHANGED <<prog, tool_available, ffmpeg_path, current_file, workers,
                   dialog, progress_bar, progress_label>>

---------------------------------------------------------------------------
(* src/main.py: one streamed run in detail.  The child is started with its *)
(* output and error streams on two pipes; the parent reads lines from the  *)
(* output pipe until it is at end of file and the child has exited, then   *)
(* waits.  The error pipe is read, if at all, only after the wait.  A pipe *)
(* holds PipeCap units; a writer to a full pipe blocks.                    *)

PipeCap == 2       \* units of text a pipe buffers
MaxWrites == 3     \* units of text the child writes to one stream

Child(out, err, rc, alive) == [out |-> out, err |-> err, rc |-> rc, alive |-> alive]
NoChild == Child(0, 0, 0, FALSE)

StreamIdle ==
    /\ sp_pc = "idle" /\ sp_child = NoChild /\ sp_out = 0 /\ sp_err = 0
    /\ sp_ret = "none"

\* subprocess.Popen(cmd, stdout=PIPE, stderr=PIPE, ...): the child has
\* nout lines of progress and nerr units of log text to write, and will
\* exit with rc once it has written them
StreamLaunch(nout, nerr, rc) ==
    /\ sp_pc = "idle"
    /\ sp_pc' = "reading"
    /\ sp_child' = Child(nout, nerr, rc, TRUE)
    /\ UNCHANGED <<sp_out, sp_err, sp_ret>>

\* the child writes a progress line to its output stream
ChildWriteOut ==
    /\ sp_child.alive /\ sp_child.out > 0
    /\ sp_out < PipeCap
    /\ sp_child' = [sp_child EXCEPT !.out = @ - 1]
    /\ sp_out' = sp_out + 1
    /\ UNCHANGED <<sp_pc, sp_err, sp_ret>>

\* the child writes log text to its error stream
ChildWriteErr ==
    /\ sp_child.alive /\ sp_child.err > 0
    /\ sp_err < PipeCap
    /\ sp_child' = [sp_child EXCEPT !.err = @ - 1]
    /\ sp_err' = sp_err + 1
    /\ UNCHANGED <<sp_pc, sp_out, sp_ret>>

\* the child has written everything and exits, closing its streams
ChildExit ==
    /\ sp_child.alive /\ sp_child.out = 0 /\ sp_child.err = 0
    /\ sp_child' = [sp_child EXCEPT !.alive = FALSE]
    /\ UNCHANGED <<sp_pc, sp_out, sp_err, sp_ret>>

\* lines 142-164: process.stdout.readline() returns a line
ParentReadLine ==
    /\ sp_pc = "reading" /\ sp_out > 0
    /\ sp_out' = sp_out - 1
    /\ UNCHANGED <<sp_pc, sp_child, sp_err, sp_ret>>

\* lines 142-145 and 167-196: readline() returns '' at end of file and
\* poll() reports the exit: the loop ends, wait() returns, the error pipe
\* is read on failure, and the operation returns
ParentFinish(ok) ==
    /\ sp_pc = "reading" /\ sp_out = 0 /\ ~sp_child.alive
    /\ sp_pc' = "returned"
    /\ sp_ret' = IF sp_child.rc = 0 /\ ok THEN "True" ELSE "False"
    /\ sp_err' = 0
    /\ UNCHANGED <<sp_child, sp_out>>

restOfStream == <<sessionVars, namingVars, sideVars>>
StreamNext ==
    \/ UNCHANGED restOfStream /\
         \E nout \in 0..MaxWrites, nerr \in 0..MaxWrites, rc \in ExitCodes :
           StreamLaunch(nout, nerr, rc)
    \/ UNCHANGED restOfStream /\ ChildWriteOut
    \/ UNCHANGED restOfStream /\ ChildWriteErr
    \/ UNCHANGED restOfStream /\ ChildExit
    \/ UNCHANGED restOfStream /\ ParentReadLine
    \/ UNCHANGED restOfStream /\ \E ok \in BOOLEAN : ParentFinish(ok)

---------------------------------------------------------------------------
(* The names of the outputs, for selected files of any shape, also when    *)
(* an output is selected in turn.                                          *)

MaxNameLen == 2    \* characters in the base of a file name
MaxChain == 2      \* outputs selected in turn

NameChars == {"a", "."}
Bases == UNION {[1..n -> NameChars] : n \in 1..MaxNameLen} \ {<<".">>, <<".", ".">>}
Extensions == {<<>>, DotMp4, <<".", "m", "p", "3">>}
Folders == {<<>>, <<"d">>}
NamePool == {PathJoin(d, b \o e) : d \in Folders, b \in Bases, e \in Extensions}

NamingOps == {"convert_mp4", "convert_mp3", "extract", "compress", "cut", "fix",
              "split"}
\* the output path the operation passes to the tool
OutputOf(op, file) ==
    CASE op = "convert_mp4" -> ConvertOutput(file, Mp4)
      [] op = "convert_mp3" -> ConvertOutput(file, Mp3)
      [] op = "extract" -> AudioOutput(file)
      [] op = "compress" -> CompressOutput(file)
      [] op = "cut" -> CutOutput(file)
      [] op = "fix" -> FixedOutput(file)
      [] op = "split" -> SplitPattern(file)
\* the suffix the operation appends to the stem
SuffixOf(op) ==
    CASE op = "convert_mp4" -> SfxConverted \o Mp4
      [] op = "convert_mp3" -> SfxConverted \o Mp3
      [] op = "extract" -> SfxAudio
      [] op = "compress" -> SfxCompressed
      [] op = "cut" -> SfxCut
      [] op = "fix" -> SfxFixed
      [] op = "split" -> SfxPattern

NamingIdle ==
    /\ pn_out = <<>> /\ pn_op = "none" /\ pn_depth = 0

\* an operation derives its output path from the selected file
NameOutput(op) ==
    /\ pn_op = "none"
    /\ pn_op' = op
    /\ pn_out' = OutputOf(op, pn_file)
    /\ UNCHANGED <<pn_file, pn_depth>>

\* the output (a segment, after a split) is selected as the next file
SelectOutput(n) ==
    /\ pn_op # "none" /\ pn_depth < MaxChain
    /\ pn_file' = IF pn_op = "split" THEN SplitPart(pn_file, n) ELSE pn_out
    /\ pn_depth' = pn_depth + 1
    /\ pn_op' = "none" /\ pn_out' = <<>>

restOfNaming == <<sessionVars, streamVars, sideVars>>
NamingNext ==
    \/ UNCHANGED restOfNaming /\ \E op \in NamingOps : NameOutput(op)
    \/ UNCHANGED restOfNaming /\ \E n \in {0, MaxParts - 1} : SelectOutput(n)

---------------------------------------------------------------------------
(* Split by number of parts: the segment duration that is computed from    *)
(* the probed duration and written into the argument vector, for whole     *)
(* numbers of seconds and part counts beyond those of the sessions above.  *)

MaxDuration == 12  \* seconds the probe reports
MaxCount == 5      \* parts asked for

PartCounts == {IntSeq(n) : n \in 1..MaxCount}
PartsFronts == {"cli", "gui_simple", "gui"}

PartsIdle ==
    /\ ps_front = "none" /\ ps_value = <<>> /\ ps_total = 0
    /\ ps_segment = FloatZero /\ ps_cmd = <<>>

\* the "parts" branch of split_video (main.py) and of execute_split (the
\* two windowed front ends) for the selected file FileA, once the probe has
\* exited with status 0 and printed total seconds
SplitByParts(front, value, total) ==
    LET accepted == PartsAccepted(value)
        segment_duration == FloatDiv(total, ParseInt(value))
        pattern == SplitPattern(FileA)
    IN  /\ ps_front = "none"
        /\ ps_front' = front
        /\ ps_value' = value
        /\ ps_total' = total
        /\ ps_segment' = IF accepted THEN segment_duration ELSE FloatZero
        /\ ps_cmd' = IF ~accepted THEN <<>>
                     ELSE IF front = "cli"
                     THEN CliSplitTimeCmd("ffmpeg", FileA,
                                          FloatStr(segment_duration), pattern)
                     ELSE GuiSplitTimeCmd("ffmpeg", FileA,
                                          FloatStr(segment_duration), pattern)

restOfParts == <<sessionVars, streamVars, namingVars, dropVars, setupVars, progressVars, buildVars, versionVars, builderVars, barVars, spinnerVars>>
PartsNext ==
    \/ UNCHANGED restOfParts /\
         \E front \in PartsFronts, value \in PartCounts, total \in 0..MaxDuration :
           SplitByParts(front, value, total)

---------------------------------------------------------------------------
(* The cleaning of the initial file prompt, for typed text of any shape.   *)

MaxPathLen == 3    \* characters of a typed path

PathChars == {"a", " ", "\"", "'", "\\"}
RECURSIVE TextsOver(_, _)
\* the texts of at most n characters
TextsOver(chars, n) ==
    IF n = 0 THEN {<<>>}
    ELSE LET shorter == TextsOver(chars, n - 1)
         IN  shorter \cup {<<c>> \o t : c \in chars, t \in shorter}
TypedPaths == TextsOver(PathChars, MaxPathLen)

RECURSIVE EscapeSpaces(_)
\* the path as a terminal pastes it: every space written as backslash-space
EscapeSpaces(s) ==
    IF s = <<>> THEN <<>>
    ELSE (IF Head(s) = " " THEN <<"\\", " ">> ELSE <<Head(s)>>)
         \o EscapeSpaces(Tail(s))
DropForms == {"plain", "double", "single", "escaped"}
\* the four ways test_path_handling writes a path
Dropped(path, form) ==
    CASE form = "plain" -> path
      [] form = "double" -> <<"\"">> \o path \o <<"\"">>
      [] form = "single" -> <<"'">> \o path \o <<"'">>
      [] form = "escaped" -> EscapeSpaces(path)

DropIdle ==
    /\ dd_path = <<>> /\ dd_form = "none" /\ dd_input = <<>>
    /\ dd_clean = <<>> /\ dd_again = <<>> /\ dd_select = <<>>

\* the text is read from the prompt and cleaned; the result is cleaned again
DropPath(path, form) ==
    /\ dd_form = "none"
    /\ dd_path' = path
    /\ dd_form' = form
    /\ dd_input' = Dropped(path, form)
    /\ dd_clean' = CleanPrompt(Dropped(path, form))
    /\ dd_again' = CleanPrompt(CleanPrompt(Dropped(path, form)))
    /\ dd_select' = CleanSelect(Dropped(path, form))

restOfDrop == <<sessionVars, streamVars, namingVars, partsVars, setupVars, progressVars, buildVars, versionVars, builderVars, barVars, spinnerVars>>
DropNext ==
    \/ UNCHANGED restOfDrop /\
         \E path \in TypedPaths, form \in DropForms : DropPath(path, form)

---------------------------------------------------------------------------
(* test_setup.py: the checks of the installation and their summary.        *)

MaxMajor == 4      \* sys.version_info.major
MaxMinor == 8      \* sys.version_info.minor

PythonVersions == {<<major, minor>> : major \in 2..MaxMajor, minor \in 0..MaxMinor}
\* subprocess.run(["ffmpeg", "-version"], timeout=5): an exit status, or
\* FileNotFoundError, or TimeoutExpired
FfmpegOutcomes == {"0", "1", "FileNotFoundError", "TimeoutExpired"}
AppFiles == {"ffmpeg_app_simple.py", "ffmpeg_app.py", "requirements.txt"}

\* check_python_version
CheckPythonVersion(version) == version[1] >= 3 /\ version[2] >= 7
\* check_tkinter, check_tkinterdnd2: the import succeeds
CheckImport(importable) == importable
\* check_ffmpeg (the probe for ffprobe only prints)
CheckFfmpegVersion(outcome) == outcome = "0"
\* check_files
CheckFiles(present) == \A filename \in AppFiles : filename \in present

Checks(python, tkinter, tkinterdnd2, ffmpeg, files) ==
    [python |-> python, tkinter |-> tkinter, tkinterdnd2 |-> tkinterdnd2,
     ffmpeg |-> ffmpeg, files |-> files]
required_checks == {"python", "tkinter", "ffmpeg", "files"}
MutAllRequiredPassed(checks) == \A k \in DOMAIN checks : checks[k]
\* all(checks[k] for k in required_checks)
AllRequiredPassed(checks) == \A k \in required_checks : checks[k]

SetupIdle ==
    /\ ts_pc = "start" /\ ts_version = <<3, 7>> /\ ts_tkinter = TRUE
    /\ ts_dnd = TRUE /\ ts_ffmpeg = "0" /\ ts_files = AppFiles
    /\ ts_checks = Checks(FALSE, FALSE, FALSE, FALSE, FALSE) /\ ts_ret = <<>>
\* the installations the script may be run in
SetupStart ==
    /\ ts_pc = "start" /\ ts_version \in PythonVersions /\ ts_tkinter \in BOOLEAN
    /\ ts_dnd \in BOOLEAN /\ ts_ffmpeg \in FfmpegOutcomes
    /\ ts_files \in SUBSET AppFiles
    /\ ts_checks = Checks(FALSE, FALSE, FALSE, FALSE, FALSE) /\ ts_ret = <<>>

\* main: the five checks, then the summary
SetupMain ==
    /\ ts_pc = "start"
    /\ LET checks == Checks(CheckPythonVersion(ts_version), CheckImport(ts_tkinter),
                            CheckImport(ts_dnd), CheckFfmpegVersion(ts_ffmpeg),
                            CheckFiles(ts_files))
       IN  /\ ts_checks' = checks
           /\ ts_ret' = IF AllRequiredPassed(checks) THEN <<0>> ELSE <<1>>
    /\ ts_pc' = "done"
    /\ UNCHANGED <<ts_version, ts_tkinter, ts_dnd, ts_ffmpeg, ts_files>>

restOfSetup == <<sessionVars, streamVars, namingVars, partsVars, dropVars, progressVars, buildVars, versionVars, builderVars, barVars, spinnerVars>>
SetupNext ==
    \/ UNCHANGED restOfSetup /\ SetupMain

---------------------------------------------------------------------------
(* The progress loop of the streamed operations: the lines the parent      *)
(* reads from the child's standard output and what it prints for them.     *)

MaxSeconds == 11   \* processed media time the child reports, in seconds
MaxLines == 4      \* lines the parent reads from the child

MicrosPerSecond == 1000000
\* the values of out_time_ms (microseconds): every half second
ProgressTimes == {k * (MicrosPerSecond \div 2) : k \in 0..(2 * MaxSeconds)}
\* convert, extract, split and repair report every 5 seconds, the
\* re-encoding fallback every 10
ProgressIntervals == {5, 10}

\* int(time_ms / 1000000.0) for a time that is not negative
WholeSeconds(time_ms) == time_ms \div MicrosPerSecond
\* "int(time_seconds) % 5 == 0 and int(time_seconds) > 0"
ShowsProgress(time_ms, interval) ==
    WholeSeconds(time_ms) % interval = 0 /\ WholeSeconds(time_ms) > 0

ProgressIdle ==
    /\ pg_pc = "idle" /\ pg_interval = 5 /\ pg_lines = 0 /\ pg_time = 0
    /\ pg_started = 0 /\ pg_shown = <<>>

\* subprocess.Popen(...); progress_started = False
ProgressLaunch(interval) ==
    /\ pg_pc = "idle"
    /\ pg_pc' = "reading" /\ pg_interval' = interval
    /\ UNCHANGED <<pg_lines, pg_time, pg_started, pg_shown>>

\* readline returns a line with out_time_ms=<time_ms>; the child's processed
\* time does not go back
ProgressLine(time_ms) ==
    /\ pg_pc = "reading" /\ pg_lines < MaxLines /\ time_ms >= pg_time
    /\ pg_lines' = pg_lines + 1
    /\ pg_time' = time_ms
    /\ pg_started' = IF pg_started = 0 THEN 1 ELSE pg_started
    /\ pg_shown' = IF ShowsProgress(time_ms, pg_interval)
                   THEN Append(pg_shown, WholeSeconds(time_ms)) ELSE pg_shown
    /\ UNCHANGED <<pg_pc, pg_interval>>

\* readline returns any other line of the progress report
ProgressOtherLine ==
    /\ pg_pc = "reading" /\ pg_lines < MaxLines
    /\ pg_lines' = pg_lines + 1
    /\ UNCHANGED <<pg_pc, pg_interval, pg_time, pg_started, pg_shown>>

\* readline returns '' and the child has exited
ProgressEnd ==
    /\ pg_pc = "reading"
    /\ pg_pc' = "done"
    /\ UNCHANGED <<pg_interval, pg_lines, pg_time, pg_started, pg_shown>>

restOfProgress == <<sessionVars, streamVars, namingVars, partsVars, dropVars, setupVars, buildVars, versionVars, builderVars, barVars, spinnerVars>>
ProgressNext ==
    \/ UNCHANGED restOfProgress /\ \E interval \in ProgressIntervals : ProgressLaunch(interval)
    \/ UNCHANGED restOfProgress /\ \E time_ms \in ProgressTimes : ProgressLine(time_ms)
    \/ UNCHANGED restOfProgress /\ ProgressOtherLine
    \/ UNCHANGED restOfProgress /\ ProgressEnd

---------------------------------------------------------------------------
(* The build pipelines: scripts/simple_build.py main() and                 *)
(* scripts/build_pro.py ProfessionalBuildSystem.build().                   *)

SimpleSteps == <<"Clean Environment", "Check Dependencies", "Build Executable">>
ProSteps ==
    <<"Clean Environment", "Check Dependencies", "Create Spec", "Build Executable",
      "Optimize", "Run Tests", "Create Package", "Create Installers",
      "Create Archive">>
BuildSteps(pipeline) == IF pipeline = "simple" THEN SimpleSteps ELSE ProSteps

\* how a step function ends: it returns True, a path (create_optimized_spec),
\* False or None, or it raises an Exception
StepOutcomes == {"True", "path", "False", "None", "raise"}
\* "if success:" / "if progress.complete_step(success, ...):"
Truthy(outcome) == outcome \in {"True", "path"}
MutBreaksAfter(outcome) == FALSE
\* the loop is left after a step that failed or raised
BreaksAfter(outcome) == ~Truthy(outcome)

Summary(banner, count, total) == [banner |-> banner, count |-> count, total |-> total]
NoSummary == Summary("none", 0, 0)

BuildIdle ==
    /\ bd_pc = "idle" /\ bd_pipeline = "simple" /\ bd_ran = <<>>
    /\ bd_outcomes = <<>> /\ success_count = 0 /\ bd_summary = NoSummary
    /\ bd_ret = "None"

\* the banner is printed and the list of steps is set up
BuildStart(pipeline) ==
    /\ bd_pc = "idle"
    /\ bd_pc' = "steps" /\ bd_pipeline' = pipeline
    /\ UNCHANGED <<bd_ran, bd_outcomes, success_count, bd_summary, bd_ret>>

\* one turn of the loop over the steps: the next step is called
BuildStep(outcome) ==
    LET steps == BuildSteps(bd_pipeline)
        i == Len(bd_ran) + 1
    IN  /\ bd_pc = "steps" /\ i <= Len(steps)
        /\ bd_ran' = Append(bd_ran, steps[i])
        /\ bd_outcomes' = Append(bd_outcomes, outcome)
        /\ success_count' = IF Truthy(outcome) THEN success_count + 1
                            ELSE success_count
        /\ bd_pc' = IF BreaksAfter(outcome) \/ i = Len(steps) THEN "summary"
                    ELSE "steps"
        /\ UNCHANGED <<bd_pipeline, bd_summary, bd_ret>>

\* the final summary and the return value
BuildFinish ==
    LET total == Len(BuildSteps(bd_pipeline))
    IN  /\ bd_pc = "summary"
        /\ bd_pc' = "done"
        /\ bd_summary' = Summary(IF success_count = total THEN "successful"
                                 ELSE "failed", success_count, total)
        /\ bd_ret' = IF success_count = total THEN "True" ELSE "False"
        /\ UNCHANGED <<bd_pipeline, bd_ran, bd_outcomes, success_count>>

restOfBuild == <<sessionVars, streamVars, namingVars, partsVars, dropVars, setupVars, progressVars, versionVars, builderVars, barVars, spinnerVars>>
BuildNext ==
    \/ UNCHANGED restOfBuild /\ \E pipeline \in {"simple", "pro"} : BuildStart(pipeline)
    \/ UNCHANGED restOfBuild /\ \E outcome \in StepOutcomes : BuildStep(outcome)
    \/ UNCHANGED restOfBuild /\ BuildFinish

---------------------------------------------------------------------------
(* version.py: VersionManager and the file version.json.  The release date *)
(* (the time of the call) is left out of the stored information.           *)

MaxVersionPart == 1   \* the largest of the small version numbers
MaxUpdates == 2       \* calls of update_version, add_feature and add_fix

\* the numbers a stored version is made of: the small ones and 9, whose
\* successor has two digits
VersionParts == (0..MaxVersionPart) \cup {9}
\* f"{major}.{minor}.{patch}"
VersionText(major, minor, patch) ==
    IntSeq(major) \o <<".">> \o IntSeq(minor) \o <<".">> \o IntSeq(patch)
RECURSIVE SplitDots(_)
\* s.split('.')
SplitDots(s) ==
    IF \A i \in 1..Len(s) : s[i] # "." THEN <<s>>
    ELSE LET k == CHOOSE i \in 1..Len(s) :
                    s[i] = "." /\ \A j \in 1..(i - 1) : s[j] # "."
         IN  <<SubSeq(s, 1, k - 1)>> \o SplitDots(SubSeq(s, k + 1, Len(s)))
\* major, minor, patch = map(int, version_parts)
VersionNumbers(version) ==
    LET version_parts == SplitDots(version)
    IN  <<ParseInt(version_parts[1]), ParseInt(version_parts[2]),
          ParseInt(version_parts[3])>>

VersionInfo(version, build, features, fixes, notes) ==
    [version |-> version, build |-> build, features |-> features,
     fixes |-> fixes, notes |-> notes]
\* get_version_info without a file
DefaultInfo == VersionInfo(VersionText(1, 0, 0), 1, <<>>, <<>>, "Initial release")
\* get_version_info: the file is a tuple, empty while version.json is missing
GetVersionInfo(file) == IF file = <<>> THEN DefaultInfo ELSE file[1]
\* get_current_version
GetCurrentVersion(file) ==
    IF file = <<>> THEN VersionText(1, 0, 0) ELSE file[1].version

MutBumped(numbers, version_type) ==
    CASE version_type = "major" -> <<numbers[1] + 1, 0, 0>>
      [] version_type = "minor" -> <<numbers[1], numbers[2] + 1, numbers[3]>>
      [] version_type = "patch" -> <<numbers[1], numbers[2], numbers[3] + 1>>
      [] OTHER -> numbers
\* update_version, lines 48-56
Bumped(numbers, version_type) ==
    CASE version_type = "major" -> <<numbers[1] + 1, 0, 0>>
      [] version_type = "minor" -> <<numbers[1], numbers[2] + 1, 0>>
      [] version_type = "patch" -> <<numbers[1], numbers[2], numbers[3] + 1>>
      [] OTHER -> numbers

VersionTypes == {"major", "minor", "patch", "other"}
StoredFiles ==
    {<<>>} \cup
    {<<VersionInfo(VersionText(a, b, c), build, features, fixes, "n")>> :
        a \in VersionParts, b \in VersionParts, c \in VersionParts,
        build \in {1, 7}, features \in {<<>>, <<"f">>}, fixes \in {<<>>, <<"x">>}}
VmCall(op, type, before, returned) ==
    [op |-> op, type |-> type, before |-> before, returned |-> returned]
NoVmCall == VmCall("none", "", DefaultInfo, <<>>)

VersionIdle ==
    /\ vm_pc = "start" /\ version_file = <<>> /\ current_version = <<>>
    /\ vm_calls = 0 /\ vm_last = NoVmCall
\* the directories the version manager may be started in
VersionStart ==
    /\ vm_pc = "start" /\ version_file \in StoredFiles /\ current_version = <<>>
    /\ vm_calls = 0 /\ vm_last = NoVmCall

\* VersionManager.__init__
VmConstruct ==
    /\ vm_pc = "start"
    /\ vm_pc' = "ready"
    /\ current_version' = GetCurrentVersion(version_file)
    /\ UNCHANGED <<version_file, vm_calls, vm_last>>

\* update_version(version_type, notes)
UpdateVersion(version_type, notes) ==
    /\ vm_pc = "ready" /\ vm_calls < MaxUpdates
    /\ LET current == GetVersionInfo(version_file)
           bumped == Bumped(VersionNumbers(current.version), version_type)
           new_version == VersionText(bumped[1], bumped[2], bumped[3])
           version_info ==
               VersionInfo(new_version, current.build + 1, current.features,
                           current.fixes,
                           IF notes = ""
                           THEN "Version " \o ToStr(new_version) \o " release"
                           ELSE notes)
       IN  /\ version_file' = <<version_info>>
           /\ current_version' = new_version
           /\ vm_last' = VmCall("update", version_type, current, new_version)
    /\ vm_calls' = vm_calls + 1
    /\ UNCHANGED vm_pc

\* add_feature(feature) and add_fix(fix)
AddEntry(kind, entry) ==
    /\ vm_pc = "ready" /\ vm_calls < MaxUpdates
    /\ LET version_info == GetVersionInfo(version_file)
       IN  /\ version_file' =
                 <<IF kind = "feature"
                   THEN [version_info EXCEPT !.features = Append(@, entry)]
                   ELSE [version_info EXCEPT !.fixes = Append(@, entry)]>>
           /\ vm_last' = VmCall(kind, "", version_info, <<>>)
    /\ vm_calls' = vm_calls + 1
    /\ UNCHANGED <<vm_pc, current_version>>

restOfVersion == <<sessionVars, streamVars, namingVars, partsVars, dropVars, setupVars, progressVars, buildVars, builderVars, barVars, spinnerVars>>
VersionNext ==
    \/ UNCHANGED restOfVersion /\ VmConstruct
    \/ UNCHANGED restOfVersion /\
         \E version_type \in VersionTypes, notes \in {"", "n"} :
           UpdateVersion(version_type, notes)
    \/ UNCHANGED restOfVersion /\ \E kind \in {"feature", "fix"} : AddEntry(kind, "e")

---------------------------------------------------------------------------
(* scripts/build.py: ProfessionalBuilder.build().                          *)

BuilderSteps ==
    <<"Clean", "Requirements", "Spec File", "Build", "Optimize", "Test",
      "Package", "Installers", "Archive">>
\* how each step function can end: the value of its return statements (None
\* where the function runs off its end), or an exception that it does not
\* catch itself
StepReturns(step) ==
    CASE step = "Clean" -> {"None", "raise"}
      [] step = "Requirements" -> {"True", "False"}
      [] step = "Spec File" -> {"path", "raise"}
      [] step = "Build" -> {"True", "False"}
      [] step = "Optimize" -> {"True", "False"}
      [] step = "Test" -> {"True", "False"}
      [] step = "Package" -> {"True", "False", "raise"}
      [] step = "Installers" -> {"None", "raise"}
      [] step = "Archive" -> {"True", "False"}
\* "if not step_func():"
StepPassed(outcome) == outcome \in {"True", "path"}

Platforms == {"Windows", "Darwin", "Linux"}
\* what clean_build removes, in the order in which it removes it
dirs_to_clean == <<"build", "dist", "release", "__pycache__">>
Called(step, outcome) == [step |-> step, outcome |-> outcome]

BuilderIdle ==
    /\ pb_pc = "idle" /\ current_os = "Linux" /\ pb_dirs = {}
    /\ pb_ran = <<>> /\ pb_said = "" /\ pb_ret = "None"

\* the environment the builder is started in
BuilderStart ==
    /\ pb_pc = "idle" /\ current_os \in Platforms
    /\ pb_dirs \in SUBSET Range(dirs_to_clean)
    /\ pb_ran = <<>> /\ pb_said = "" /\ pb_ret = "None"

\* __init__ and the head of build(): the list of steps is set up
BuilderConstruct ==
    /\ pb_pc = "idle"
    /\ pb_pc' = "call"
    /\ UNCHANGED <<current_os, pb_dirs, pb_ran, pb_said, pb_ret>>

\* the directories left when clean_build removed the first n of its list
CleanedUpTo(existing, n) == existing \ {dirs_to_clean[i] : i \in 1..n}

\* step_func() is called.  clean_build removes the build directories and
\* the caches that exist, one after the other; a removal that fails raises
\* and leaves the rest in place
StepCall(outcome) ==
    LET i == Len(pb_ran) + 1
        step == BuilderSteps[i]
    IN  /\ pb_pc = "call" /\ i <= Len(BuilderSteps)
        /\ outcome \in StepReturns(step)
        /\ pb_ran' = Append(pb_ran, Called(step, outcome))
        /\ pb_pc' = "check"
        /\ IF step = "Clean"
           THEN IF outcome = "raise"
                THEN \E n \in 1..Len(dirs_to_clean) :
                       /\ dirs_to_clean[n] \in pb_dirs
                       /\ pb_dirs' = CleanedUpTo(pb_dirs, n - 1)
                ELSE pb_dirs' = {}
           ELSE UNCHANGED pb_dirs
        /\ UNCHANGED <<current_os, pb_said, pb_ret>>

\* the test of the step's result, and the end of the loop
StepCheck ==
    LET i == Len(pb_ran)
        outcome == pb_ran[i].outcome
    IN  /\ pb_pc = "check"
        /\ IF outcome = "raise"
           THEN /\ pb_said' = "failed with error" /\ pb_ret' = "False"
                /\ pb_pc' = "done"
           ELSE IF ~StepPassed(outcome)
           THEN /\ pb_said' = "failed!" /\ pb_ret' = "False"
                /\ pb_pc' = "done"
           ELSE IF i = Len(BuilderSteps)
           THEN /\ pb_said' = "BUILD SUCCESSFUL!" /\ pb_ret' = "True"
                /\ pb_pc' = "done"
           ELSE /\ pb_pc' = "call"
                /\ UNCHANGED <<pb_said, pb_ret>>
        /\ UNCHANGED <<current_os, pb_dirs, pb_ran>>

restOfBuilder == <<sessionVars, streamVars, namingVars, partsVars, dropVars, setupVars, progressVars, buildVars, versionVars, barVars, spinnerVars>>
BuilderNext ==
    \/ UNCHANGED restOfBuilder /\ BuilderConstruct
    \/ UNCHANGED restOfBuilder /\ \E outcome \in {"True", "path", "False", "None", "raise"} : StepCall(outcome)
    \/ UNCHANGED restOfBuilder /\ StepCheck

---------------------------------------------------------------------------
(* scripts/progress_utils.py: ProgressBar.                                 *)

MaxTotal == 4      \* the total a bar is created with
MaxStep == 2       \* the n of update(n)

BarWidths == {1, 50}
BarDescs == {"", "Built"}          \* desc: None or a text

MutAdvanced(current, n, total) == current + n
\* min(self.current + n, self.total)
Advanced(current, n, total) == Min(current + n, total)

\* a division: the quotient, or the ZeroDivisionError it raises
Quotient(a, b) ==
    IF b = 0 THEN [error |-> "ZeroDivisionError", value |-> FloatZero]
    ELSE [error |-> "", value |-> FloatDiv(a, b)]
\* what _display draws: the number of filled cells and the remaining time
Drawn(filled, eta, error) == [filled |-> filled, eta |-> eta, error |-> error]
NotDrawn == Drawn(0, "", "")
\* _display; for the remaining time the elapsed time (a whole number of
\* seconds here, of which only the division is kept) is divided by current
Display(current, total, width) ==
    LET percent == IF total = 0 THEN Quotient(0, 1) ELSE Quotient(current, total)
        eta == IF current = 0 THEN [error |-> "", value |-> "?s"]
               ELSE [error |-> Quotient(1, current).error, value |-> "s"]
    IN  IF percent.error # "" THEN Drawn(0, "", percent.error)
        ELSE IF eta.error # "" THEN Drawn(0, "", eta.error)
        ELSE Drawn(FloorOfProduct(width, percent.value), eta.value, "")

BarIdle ==
    /\ bar_total = 0 /\ bar_width = 0 /\ bar_current = 0 /\ bar_desc = ""
    /\ bar_drawn = NotDrawn /\ bar_last = "none"

\* ProgressBar(total, desc, width)
BarStart ==
    /\ bar_total \in 0..MaxTotal /\ bar_width \in BarWidths
    /\ bar_current = 0 /\ bar_desc = "Progress"
    /\ bar_drawn = NotDrawn /\ bar_last = "init"

\* "if desc: self.desc = desc"
NewDesc(desc) == IF desc # "" THEN desc ELSE bar_desc

\* update(n, desc); due: 100 ms have passed since the last drawing
BarUpdate(n, desc, due) ==
    /\ bar_last # "none"
    /\ bar_current' = Advanced(bar_current, n, bar_total)
    /\ bar_desc' = NewDesc(desc)
    /\ bar_drawn' = IF due THEN Display(bar_current', bar_total, bar_width)
                    ELSE bar_drawn
    /\ bar_last' = "update"
    /\ UNCHANGED <<bar_total, bar_width>>

\* set_progress(current, desc)
BarSetProgress(current, desc) ==
    /\ bar_last # "none"
    /\ bar_current' = Min(current, bar_total)
    /\ bar_desc' = NewDesc(desc)
    /\ bar_drawn' = Display(bar_current', bar_total, bar_width)
    /\ bar_last' = "set_progress"
    /\ UNCHANGED <<bar_total, bar_width>>

\* finish(desc)
BarFinish(desc) ==
    /\ bar_last # "none"
    /\ bar_current' = bar_total
    /\ bar_desc' = NewDesc(desc)
    /\ bar_drawn' = Display(bar_current', bar_total, bar_width)
    /\ bar_last' = "finish"
    /\ UNCHANGED <<bar_total, bar_width>>

restOfBar == <<sessionVars, streamVars, namingVars, partsVars, dropVars, setupVars, progressVars, buildVars, versionVars, builderVars, spinnerVars>>
BarNext ==
    \/ UNCHANGED restOfBar /\ \E n \in 0..MaxStep, desc \in BarDescs, due \in BOOLEAN : BarUpdate(n, desc, due)
    \/ UNCHANGED restOfBar /\ \E current \in 0..(MaxTotal + 1), desc \in BarDescs : BarSetProgress(current, desc)
    \/ UNCHANGED restOfBar /\ \E desc \in BarDescs : BarFinish(desc)

---------------------------------------------------------------------------
(* scripts/progress_utils.py: Spinner.  The caller makes start() and       *)
(* stop() calls one after the other; every start() creates a thread that   *)
(* runs _spin: it tests self.spinning, prints a frame, sleeps and tests    *)
(* again.                                                                  *)

MaxCalls == 4      \* start() and stop() calls of one caller

\* self.thread = None
NoThread == 0

SpinnerIdle ==
    /\ sn_pc = "idle" /\ spinning = FALSE /\ thread = NoThread
    /\ sn_threads = <<>> /\ sn_out = "" /\ sn_calls = <<>>

\* start()
SpinnerStart ==
    /\ sn_pc = "idle" /\ Len(sn_calls) < MaxCalls
    /\ spinning' = TRUE
    /\ sn_threads' = Append(sn_threads, "test")
    /\ thread' = Len(sn_threads) + 1
    /\ sn_calls' = Append(sn_calls, "start")
    /\ UNCHANGED <<sn_pc, sn_out>>

\* stop() up to the join; without a thread it prints the status at once
SpinnerStop ==
    /\ sn_pc = "idle" /\ Len(sn_calls) < MaxCalls
    /\ spinning' = FALSE
    /\ sn_calls' = Append(sn_calls, "stop")
    /\ IF thread # NoThread
       THEN sn_pc' = "join" /\ UNCHANGED sn_out
       ELSE sn_pc' = "idle" /\ sn_out' = "status"
    /\ UNCHANGED <<thread, sn_threads>>

\* self.thread.join() returns when that thread has ended; the status line
\* is printed and stop() returns
SpinnerJoined ==
    /\ sn_pc = "join" /\ sn_threads[thread] = "dead"
    /\ sn_pc' = "idle" /\ sn_out' = "status"
    /\ UNCHANGED <<spinning, thread, sn_threads, sn_calls>>

\* _spin: "while self.spinning"
SpinTest(t) ==
    /\ t \in DOMAIN sn_threads /\ sn_threads[t] = "test"
    /\ sn_threads' = [sn_threads EXCEPT ![t] = IF spinning THEN "print" ELSE "dead"]
    /\ UNCHANGED <<sn_pc, spinning, thread, sn_out, sn_calls>>

\* _spin: the frame is printed, the thread sleeps and comes back to the test
SpinPrint(t) ==
    /\ t \in DOMAIN sn_threads /\ sn_threads[t] = "print"
    /\ sn_threads' = [sn_threads EXCEPT ![t] = "test"]
    /\ sn_out' = "frame"
    /\ UNCHANGED <<sn_pc, spinning, thread, sn_calls>>

restOfSpinner == <<sessionVars, streamVars, namingVars, partsVars, dropVars, setupVars, progressVars, buildVars, versionVars, builderVars, barVars>>
SpinnerNext ==
    \/ UNCHANGED restOfSpinner /\ SpinnerStart
    \/ UNCHANGED restOfSpinner /\ SpinnerStop
    \/ UNCHANGED restOfSpinner /\ SpinnerJoined
    \/ UNCHANGED restOfSpinner /\ \E t \in 1..MaxCalls : SpinTest(t)
    \/ UNCHANGED restOfSpinner /\ \E t \in 1..MaxCalls : SpinPrint(t)

\* the models that are not run stay as they start
SideOff(except) ==
    /\ except = "parts" \/ PartsIdle
    /\ except = "drop" \/ DropIdle
    /\ except = "setup" \/ SetupIdle
    /\ except = "progress" \/ ProgressIdle
    /\ except = "build" \/ BuildIdle
    /\ except = "version" \/ VersionIdle
    /\ except = "builder" \/ BuilderIdle
    /\ except = "bar" \/ BarIdle
    /\ except = "spinner" \/ SpinnerIdle

---------------------------------------------------------------------------
(* The specification of the programs.                                      *)

Programs == {"cli", "gui_simple", "gui", "mini", "script"}


Init ==
    /\ prog \in Programs
    /\ pc = "start" /\ ret = <<>>
    /\ tool_available \in BOOLEAN
    /\ ffmpeg_path = None
    /\ current_file = NoFile
    /\ fs \in (IF prog = "script" THEN {{}, {ScriptFile}} ELSE {InitialFiles})
    /\ nops = 0 /\ last = NoOp
    /\ SessionIdle /\ StreamIdle
    /\ pn_file = NoFile /\ NamingIdle
    /\ SideOff("none")

otherVars == <<streamVars, namingVars, sideVars>>

Next ==
    \/ UNCHANGED otherVars /\ \E argv \in {<<>>} \cup {<<p>> : p \in InitialFiles \cup {FileZ}} : CliStart(argv)
    \/ UNCHANGED otherVars /\ \E raw \in RawInputs : CliPrompt(raw)
    \/ UNCHANGED otherVars /\ CliInfo
    \/ UNCHANGED otherVars /\ \E fmt \in {Mp4, Mp3} : CliConvert(fmt)
    \/ UNCHANGED otherVars /\ CliExtract
    \/ UNCHANGED otherVars /\ CliCompress
    \/ UNCHANGED otherVars /\ \E start \in TimeInputs, duration \in TimeInputs : CliCut(start, duration)
    \/ UNCHANGED otherVars /\ \E choice \in SplitChoices :
         \E value \in (IF choice = "1" THEN TimeInputs ELSE ValueInputs) :
           CliSplit(choice, value)
    \/ UNCHANGED otherVars /\ CliFix
    \/ UNCHANGED otherVars /\ \E raw \in RawInputs : CliSelect(raw)
    \/ UNCHANGED otherVars /\ CliInvalidChoice
    \/ UNCHANGED otherVars /\ CliContinue
    \/ UNCHANGED otherVars /\ CliExit
    \/ UNCHANGED otherVars /\ GuiStart
    \/ UNCHANGED otherVars /\ \E raw \in GuiRawInputs : GuiLoad(raw)
    \/ UNCHANGED otherVars /\ GuiInfo
    \/ UNCHANGED otherVars /\ \E fmt \in {Mp4, Mp3} : GuiConvert(fmt)
    \/ UNCHANGED otherVars /\ GuiExtract
    \/ UNCHANGED otherVars /\ GuiCompress
    \/ UNCHANGED otherVars /\ \E which \in {"cut", "split"} : GuiOpenDialog(which)
    \/ UNCHANGED otherVars /\ GuiCloseDialog
    \/ UNCHANGED otherVars /\ \E start \in TimeInputs, duration \in TimeInputs : GuiCutConfirm(start, duration)
    \/ UNCHANGED otherVars /\ \E method \in {"time", "size", "parts"} :
         \E value \in GuiValueInputs(method) : GuiSplitConfirm(method, value)
    \/ UNCHANGED otherVars /\ \E i \in 1..MaxOps : WorkerBegin(i)
    \/ UNCHANGED otherVars /\ \E i \in 1..MaxOps : WorkerEnd(i)
    \/ UNCHANGED otherVars /\ \E file \in MiniInputs : MiniInfo(file)
    \/ UNCHANGED otherVars /\ \E input_file \in MiniInputs : MiniConvert(input_file, OutB)
    \/ UNCHANGED otherVars /\ \E input_file \in MiniInputs, copy \in BOOLEAN :
         MiniTrim(input_file, OutB, <<"0">>, <<"5">>, copy)
    \/ UNCHANGED otherVars /\ \E input_file \in MiniInputs : MiniExtract(input_file, OutB)
    \/ UNCHANGED otherVars /\ \E input_file \in MiniInputs : MiniSplit(input_file, OutPattern, 5)
    \/ UNCHANGED otherVars /\ MiniHelp
    \/ UNCHANGED otherVars /\ ScriptMain

Spec == Init /\ [][Next]_vars

\* one streamed run, with no session around it
NoSession ==
    /\ prog = "cli" /\ pc = "start" /\ ret = <<>> /\ tool_available = TRUE
    /\ ffmpeg_path = None /\ current_file = NoFile /\ fs = InitialFiles
    /\ nops = 0 /\ last = NoOp /\ SessionIdle

StreamInit ==
    NoSession /\ StreamIdle /\ pn_file = NoFile /\ NamingIdle /\ SideOff("none")
StreamSpec == StreamInit /\ [][StreamNext]_vars

NamingInit ==
    NoSession /\ StreamIdle /\ pn_file \in NamePool /\ NamingIdle /\ SideOff("none")
NamingSpec == NamingInit /\ [][NamingNext]_vars

PartsInit ==
    /\ NoSession /\ StreamIdle /\ pn_file = NoFile /\ NamingIdle
    /\ PartsIdle /\ SideOff("parts")
PartsSpec == PartsInit /\ [][PartsNext]_vars

DropInit ==
    /\ NoSession /\ StreamIdle /\ pn_file = NoFile /\ NamingIdle
    /\ DropIdle /\ SideOff("drop")
DropSpec == DropInit /\ [][DropNext]_vars

SetupInit ==
    /\ NoSession /\ StreamIdle /\ pn_file = NoFile /\ NamingIdle
    /\ SetupStart /\ SideOff("setup")
SetupSpec == SetupInit /\ [][SetupNext]_vars

ProgressInit ==
    /\ NoSession /\ StreamIdle /\ pn_file = NoFile /\ NamingIdle
    /\ ProgressIdle /\ SideOff("progress")
ProgressSpec == ProgressInit /\ [][ProgressNext]_vars

BuildInit ==
    /\ NoSession /\ StreamIdle /\ pn_file = NoFile /\ NamingIdle
    /\ BuildIdle /\ SideOff("build")
BuildSpec == BuildInit /\ [][BuildNext]_vars

VersionInit ==
    /\ NoSession /\ StreamIdle /\ pn_file = NoFile /\ NamingIdle
    /\ VersionStart /\ SideOff("version")
VersionSpec == VersionInit /\ [][VersionNext]_vars

BuilderInit ==
    /\ NoSession /\ StreamIdle /\ pn_file = NoFile /\ NamingIdle
    /\ BuilderStart /\ SideOff("builder")
BuilderSpec == BuilderInit /\ [][BuilderNext]_vars

BarInit ==
    /\ NoSession /\ StreamIdle /\ pn_file = NoFile /\ NamingIdle
    /\ BarStart /\ SideOff("bar")
BarSpec == BarInit /\ [][BarNext]_vars

SpinnerInit ==
    /\ NoSession /\ StreamIdle /\ pn_file = NoFile /\ NamingIdle
    /\ SpinnerIdle /\ SideOff("spinner")
SpinnerSpec == SpinnerInit /\ [][SpinnerNext]_vars

---------------------------------------------------------------------------
(* Properties of the sessions.                                             *)

CliMediaOps == {"convert", "extract", "compress", "cut", "split", "fix"}
CliMenuOps == CliMediaOps \cup {"info"}
GuiOps == {"info", "convert", "extract", "compress", "cut", "split"}
LoadOps == {"start", "prompt", "select", "load"}
SplitKinds == {"split_time", "split_size", "split_parts"}

\* the launches of the media tool made by the last request, in order
MediaRuns(rec) == SelectSeq(rec.runs, LAMBDA r : r.tool = "ffmpeg")

\* C1: in src/main.py, whenever a media operation's tool process exits
\* non-zero, at most 500 characters of that process's error text (all of
\* it when it is shorter) are shown, and the operation returns False when
\* the last process it launched failed.
C1_FailureSurfaced ==
    (prog = "cli" /\ last.op \in CliMediaOps) =>
        LET runs == MediaRuns(last)
        IN  /\ \A i \in DOMAIN runs :
                 (runs[i].rc # 0 /\ runs[i].err > 0) =>
                     /\ runs[i].shown.src = "stderr"
                     /\ runs[i].shown.hi - runs[i].shown.lo = Min(runs[i].err, ErrSliceLen)
            /\ (runs # <<>> /\ runs[Len(runs)].rc # 0) => ~last.result

\* C2: a repair launches the tool once or twice, twice exactly when the
\* first (stream-copy) attempt exits non-zero; the second launch is the
\* re-encoding fallback and its outcome is what the repair returns; every
\* other operation launches the media tool at most once.
C2_RetryPolicy ==
    (prog = "cli" /\ last.op \in CliMediaOps) =>
        LET runs == MediaRuns(last)
        IN  IF last.op = "fix" /\ runs # <<>>
            THEN /\ Len(runs) \in {1, 2}
                 /\ runs[1].kind = "fix" /\ "copy" \in Range(runs[1].cmd)
                 /\ Len(runs) = 2 <=> runs[1].rc # 0
                 /\ Len(runs) = 2 =>
                        /\ runs[2].kind = "fix_alt"
                        /\ "libx264" \in Range(runs[2].cmd)
                        /\ last.result = (runs[2].rc = 0 /\ last.out \in fs)
            ELSE Len(runs) <= 1
C2_Witness ==
    /\ prog = "cli" /\ last.op = "fix"
    /\ Len(last.runs) = 2 /\ last.runs[1].rc # 0 /\ last.result

\* C3: in the windowed programs at most one worker thread is alive and at
\* most one child process of the tool is executing.
C3_SingleWorker ==
    prog \in GuiPrograms =>
        /\ Len(workers) <= 1
        /\ Cardinality({i \in DOMAIN workers : workers[i].st = "child"}) <= 1

\* C5: in a session of src/main.py the selected file exists whenever the
\* menu is shown, and existed when each of the operations 1 to 8 used it.
C5_SelectedFileExists ==
    prog = "cli" =>
        /\ pc \in {"menu", "pause"} => current_file \in fs
        /\ last.op \in CliMenuOps => (last.existed /\ last.input \in fs)
C5_Witness ==
    /\ prog = "cli" /\ pc = "pause" /\ nops = MaxOps
    /\ last.op \in CliMediaOps /\ last.input # FileA /\ last.existed

\* C6: the selected file changes only in a step that loads a path which
\* exists (the start-up argument or prompt, menu choice 9, load_file), and
\* it becomes that path; every other step leaves it as it was.
C6_SelectedFileFrame ==
    [][current_file' # current_file =>
          /\ last'.op \in LoadOps
          /\ last'.input = current_file'
          /\ current_file' \in fs
          /\ fs' = fs /\ workers' = workers /\ nops' = nops]_vars
C6_Witness ==
    /\ last.op \in {"select", "load"} /\ last.input = current_file
    /\ current_file # FileA /\ nops > 0

\* C7: when the tool is not available, nothing is launched; src/main.py
\* returns 1 with a message before it asks for a file; the mini_ffmpeg
\* commands that need ffmpeg exit 1 in find_ffmpeg; and every operation
\* requested in a windowed program ends with an error shown to the user.
C7_NoToolNoLaunch ==
    ~tool_available =>
        /\ last.runs = <<>>
        /\ \A i \in DOMAIN workers : workers[i].st # "child"
        /\ prog = "cli" =>
               /\ pc \in {"start", "done"}
               /\ pc = "done" => (ret = <<1>> /\ last.said = "FFmpeg not found!")
        /\ (prog = "mini" /\ pc = "done" /\ last.op \notin {"info", "help"}) =>
               (ret = <<1>> /\ last.said = "FFmpeg not found")
        /\ (prog \in GuiPrograms /\ last.op \in GuiOps /\ last.said = "") =>
               \/ dialog = last.op
               \/ \E i \in DOMAIN workers : workers[i].st = "new"
               \/ progress_label.text = "Error occurred"

\* the argument vectors of the media tool in this state: those the last
\* request ran and those of the live workers
Launch(kind, cmd, input, out) == [kind |-> kind, cmd |-> cmd, input |-> input, out |-> out]
Launches ==
    {Launch(r.kind, r.cmd, r.input, r.out) : r \in Range(MediaRuns(last))}
    \cup {Launch(w.kind, w.cmd, w.input, w.out) : w \in Range(workers)}
HasInputAndOutput(c) ==
    /\ ToStr(c.input) \in Range(c.cmd)
    /\ c.cmd[Len(c.cmd)] = ToStr(c.out)
\* the split vectors of src/main.py, the windowed programs and
\* split_video.py (mini_ffmpeg.py's split is not among them)
PlainSplit(c) == c.kind \in SplitKinds /\ prog # "mini"

\* C8 (as stated): every argument vector of an operation that writes
\* output holds the input path, ends with the output path or pattern, and
\* holds the overwrite flag -y.
C8_AsStated ==
    \A c \in Launches : HasInputAndOutput(c) /\ "-y" \in Range(c.cmd)
\* C8 (amended): every such vector holds the input path and ends with the
\* output path or pattern; it holds -y unless it is a split vector of
\* src/main.py, of a windowed program or of split_video.py, which never
\* hold it.
C8_ArgvContract ==
    \A c \in Launches :
        /\ HasInputAndOutput(c)
        /\ "-y" \in Range(c.cmd) <=> ~PlainSplit(c)
C8_Witness ==
    \E c \in Launches : PlainSplit(c) /\ "-y" \notin Range(c.cmd) /\ HasInputAndOutput(c)

\* C10: an operation of src/main.py returns True only if the last process
\* it launched exited 0 and its output exists (for a split: at least one
\* <stem>_part*.mp4 file in the <stem>_split directory).
C10_SuccessMeansOutput ==
    (prog = "cli" /\ last.op \in CliMediaOps /\ last.result) =>
        LET runs == MediaRuns(last)
        IN  /\ runs # <<>> /\ runs[Len(runs)].rc = 0
            /\ IF last.op = "split" THEN GlobParts(fs, last.input) # {}
               ELSE Exists(fs, last.out)

\* C4: a streamed operation of src/main.py that has started and has not
\* returned is never stuck: the parent or the child can take a step, so
\* the operation goes on to return True or False, however much the child
\* writes to either stream.
C4_StreamingReturns ==
    sp_pc = "reading" => ENABLED StreamNext

\* C9: the output path of every operation is the input's folder joined
\* with the input's stem and the operation's suffix, and differs from the
\* input path; the split folder and the segments differ from it too.  It
\* holds as well when the selected file is an earlier output.
C9_OutputNaming ==
    pn_op # "none" =>
        /\ pn_out # pn_file
        /\ ToStr(pn_out) # ToStr(pn_file)
        /\ IF pn_op = "split"
           THEN /\ PathParent(pn_out) = SplitDir(pn_file)
                /\ PathParent(SplitDir(pn_file)) = PathParent(pn_file)
                /\ PathName(SplitDir(pn_file)) = PathStem(pn_file) \o SfxSplit
                /\ SplitDir(pn_file) # pn_file
                /\ \A n \in 0..(MaxParts - 1) : SplitPart(pn_file, n) # pn_file
           ELSE PathParent(pn_out) = PathParent(pn_file)
        /\ PathName(pn_out) = PathStem(pn_file) \o SuffixOf(pn_op)
C9_Witness ==
    /\ pn_op = "convert_mp4" /\ pn_depth = MaxChain
    /\ EndsWith(PathName(pn_file), SfxConverted \o Mp4)
    /\ pn_out # pn_file

---------------------------------------------------------------------------
(* Properties of the split by number of parts.                             *)

\* the argument that follows "-segment_time" in an argument vector
SegmentTimeOf(cmd) ==
    LET i == CHOOSE j \in 1..Len(cmd) : cmd[j] = "-segment_time" IN cmd[i + 1]
PartsLaunched == ps_cmd # <<>>
\* N * segment and D, both in units of 2^-scale
PartsTimesSegment == MulAdd(ps_segment.mant, ParseInt(ps_value), 0)
PartsTotalScaled == ShiftLeft(NatHex(ps_total), ps_segment.scale)

---------------------------------------------------------------------------
(* Properties of mini_ffmpeg.py.                                           *)

MiniMediaOps == {"convert", "cut", "extract", "split_time"}
MiniRan == prog = "mini" /\ pc = "done" /\ last.op \in MiniMediaOps /\ last.runs # <<>>

\* C12: run_ffmpeg prints Done and returns (the program then ends with status
\* 0) exactly when the child exited with status zero; after any other exit
\* status of the child the program ends with exactly that status, and a child
\* ended by a signal also leaves the program with a non-zero status.
C12_MiniExitStatus ==
    MiniRan =>
        LET returncode == last.runs[1].rc
        IN  /\ last.said = "Done." <=> returncode = 0
            /\ returncode = 0 => ret = <<0>> /\ last.result
            /\ returncode > 0 => ret = <<returncode>> /\ ~last.result
            /\ returncode < 0 => ret # <<0>> /\ ~last.result

\* a split whose child exited with status 2 ended the program with status 2
C12_Witness ==
    /\ MiniRan /\ last.op = "split_time"
    /\ last.runs[1].rc = 2 /\ ret = <<2>>

---------------------------------------------------------------------------
(* Properties of the prompt cleaning.                                      *)

\* no quote characters, no backslashes, no leading or trailing whitespace
PlainPath(path) ==
    /\ \A i \in 1..Len(path) : path[i] \notin {"\"", "'", "\\"}
    /\ path # <<>> => path[1] \notin Whitespace /\ path[Len(path)] \notin Whitespace

\* C13: the cleaning of the initial prompt maps a path without quotes,
\* backslashes and outer whitespace, written plainly, in double quotes, in
\* single quotes or with escaped spaces, to that path, and cleaning the
\* result again changes nothing.
C13_DropCleaning ==
    (dd_form # "none" /\ PlainPath(dd_path)) =>
        /\ dd_clean = dd_path
        /\ dd_again = dd_clean

\* a path with a space in it was pasted with the space escaped
C13_Witness ==
    /\ dd_form = "escaped" /\ PlainPath(dd_path)
    /\ " " \in Range(dd_path) /\ dd_input # dd_path
    /\ dd_clean = dd_path

---------------------------------------------------------------------------
(* Properties of test_setup.py.                                            *)

SetupDone == ts_pc = "done"

\* C14: main returns 0 exactly when the four required checks (Python 3.7+,
\* Tkinter, FFmpeg, application files) all passed and 1 otherwise, whatever
\* the optional tkinterdnd2 check found.
C14_SetupSummary ==
    SetupDone =>
        /\ ts_ret \in {<<0>>, <<1>>}
        /\ ts_ret = <<0>> <=>
             /\ ts_checks.python /\ ts_checks.tkinter
             /\ ts_checks.ffmpeg /\ ts_checks.files
        /\ ts_checks.tkinter = ts_tkinter
        /\ ts_checks.tkinterdnd2 = ts_dnd
        /\ ts_checks.ffmpeg = (ts_ffmpeg = "0")
        /\ ts_checks.files = (ts_files = AppFiles)

\* every required check passed, the optional one did not, and main returned 0
C14_Witness ==
    /\ SetupDone /\ ~ts_checks.tkinterdnd2 /\ ts_ret = <<0>>
    /\ ts_checks.python /\ ts_checks.tkinter /\ ts_checks.ffmpeg /\ ts_checks.files

\* version order on (major, minor)
VersionAtLeast(version, major, minor) ==
    version[1] > major \/ (version[1] = major /\ version[2] >= minor)

\* C15: check_python_version returns True exactly for the versions that are
\* 3.7 or later in version order.
C15_PythonVersion ==
    SetupDone => (ts_checks.python <=> VersionAtLeast(ts_version, 3, 7))

---------------------------------------------------------------------------
(* Properties of the windowed programs.                                    *)

\* an operation button is pressed while no file is selected
NoFilePress == prog \in GuiPrograms /\ nops' = nops + 1 /\ current_file = NoFile

\* C16: in both windowed programs every operation button pressed while no
\* file is selected shows an error message, starts no worker, launches no
\* child and leaves the filesystem alone.
C16_NoFileError ==
    [][NoFilePress =>
          /\ last'.said # ""
          /\ last'.runs = <<>>
          /\ workers' = workers
          /\ fs' = fs]_vars

\* the entered value is a decimal integer that is 2 or more
IntegerFrom2(value) == IsDigit(value) /\ ParseInt(value) >= 2
\* what the split of src/main.py has to reject
CliSplitInvalid(choice, value) ==
    CASE choice = "1" -> value = <<>>
      [] choice = "2" -> ~IsDigit(value)
      [] choice = "3" -> ~IntegerFrom2(value)
      [] OTHER -> TRUE
\* what the split dialog has to reject
GuiSplitInvalid(method, raw) ==
    LET value == Strip(raw, Whitespace)
    IN  CASE method = "time" -> value = <<>>
          [] method = "size" -> ~IsDigit(value)
          [] method = "parts" -> ~IntegerFrom2(value)

\* C17: a split request whose parameter is invalid (parts: not a decimal
\* integer of 2 or more; size: not decimal digits; time: empty; or an unknown
\* method) is rejected with an error message: neither the probing tool nor
\* the media tool is launched, no worker is started and the result is False.
C17_SplitValidation ==
    [][/\ \A choice \in SplitChoices, value \in TimeInputs \cup ValueInputs :
            (CliSplit(choice, value) /\ CliSplitInvalid(choice, value)) =>
                /\ last'.op = "split" /\ last'.said # ""
                /\ last'.runs = <<>> /\ ~last'.result
       /\ \A method \in {"time", "size", "parts"} :
            \A raw \in GuiValueInputs(method) :
              (GuiSplitConfirm(method, raw) /\ GuiSplitInvalid(method, raw)) =>
                  /\ last'.op = "split" /\ last'.said # ""
                  /\ last'.runs = <<>> /\ ~last'.result
                  /\ workers' = workers /\ dialog' = dialog]_vars

\* src/main.py has rejected a split request after making the directory
C17_Witness ==
    /\ prog = "cli" /\ last.op = "split" /\ last.said = "Invalid"
    /\ last.runs = <<>> /\ ~last.result /\ SplitDir(FileA) \in fs

---------------------------------------------------------------------------
(* Properties of the progress loop.                                        *)

\* how many progress messages were printed for the second t
ShownFor(t) == Cardinality({i \in 1..Len(pg_shown) : pg_shown[i] = t})
\* the positive multiples of the interval that the processed time reached
ReachedMultiples ==
    {t \in 1..MaxSeconds : t % pg_interval = 0 /\ t <= WholeSeconds(pg_time)}

\* C18: for any sequence of out_time_ms lines, exactly one progress message
\* is printed for each positive multiple of the interval (5 seconds, 10 in
\* the fallback) that the processed time reaches and none for any other
\* second, and the "progress started" message is printed at most once.
C18_ProgressMessages ==
    /\ pg_started <= 1
    /\ \A t \in 1..MaxSeconds :
         ShownFor(t) = IF t \in ReachedMultiples THEN 1 ELSE 0

---------------------------------------------------------------------------
(* Properties of the build pipelines.                                      *)

StepSucceeded(outcome) == outcome \in {"True", "path"}
AllStepsSucceeded ==
    /\ Len(bd_outcomes) = Len(BuildSteps(bd_pipeline))
    /\ \A i \in 1..Len(bd_outcomes) : StepSucceeded(bd_outcomes[i])

\* C19: the steps of a build pipeline (3 in simple_build, 9 in build_pro) run
\* in the listed order, no step runs after a step that returned failure or
\* raised, and the pipeline returns True, with the banner "All n/n steps
\* completed successfully", exactly when every step succeeded.
C19_BuildPipeline ==
    /\ Len(BuildSteps("simple")) = 3 /\ Len(BuildSteps("pro")) = 9
    /\ Len(bd_ran) <= Len(BuildSteps(bd_pipeline))
    /\ \A i \in 1..Len(bd_ran) : bd_ran[i] = BuildSteps(bd_pipeline)[i]
    /\ \A i \in 1..(Len(bd_outcomes) - 1) : StepSucceeded(bd_outcomes[i])
    /\ bd_pc = "done" =>
         /\ bd_ret = "True" <=> AllStepsSucceeded
         /\ bd_ret = "False" <=> ~AllStepsSucceeded
         /\ bd_summary.banner = "successful" <=> AllStepsSucceeded
         /\ AllStepsSucceeded =>
              /\ bd_summary.count = Len(BuildSteps(bd_pipeline))
              /\ bd_summary.total = Len(BuildSteps(bd_pipeline))

\* build_pro stopped after its fourth step raised, and returned False
C19_Witness ==
    /\ bd_pc = "done" /\ bd_pipeline = "pro"
    /\ Len(bd_ran) = 4 /\ bd_outcomes[4] = "raise" /\ bd_ret = "False"

---------------------------------------------------------------------------
(* Properties of the version manager.                                      *)

VmUpdated == vm_last.op = "update" /\ vm_last.type \in {"major", "minor", "patch"}
\* the three numbers of the version that was stored before the call
VmOld == VersionNumbers(vm_last.before.version)

\* C20: update_version on a stored version major.minor.patch writes and
\* returns (major+1).0.0 for "major", major.(minor+1).0 for "minor" and
\* major.minor.(patch+1) for "patch", adds exactly 1 to the stored build
\* number, carries the features and fixes over unchanged, and leaves
\* current_version equal to the version stored in version.json.
C20_UpdateVersion ==
    VmUpdated =>
        LET stored == version_file[1]
            expected ==
                CASE vm_last.type = "major" -> VersionText(VmOld[1] + 1, 0, 0)
                  [] vm_last.type = "minor" -> VersionText(VmOld[1], VmOld[2] + 1, 0)
                  [] vm_last.type = "patch" ->
                       VersionText(VmOld[1], VmOld[2], VmOld[3] + 1)
        IN  /\ version_file # <<>>
            /\ stored.version = expected
            /\ vm_last.returned = expected
            /\ stored.build = vm_last.before.build + 1
            /\ stored.features = vm_last.before.features
            /\ stored.fixes = vm_last.before.fixes
            /\ current_version = stored.version

\* a minor update of a version x.9.9 with a feature and a fix on record
C20_Witness ==
    /\ VmUpdated /\ vm_last.type = "minor"
    /\ VmOld[2] = 9 /\ VmOld[3] = 9
    /\ vm_last.before.features # <<>> /\ vm_last.before.fixes # <<>>
    /\ VersionNumbers(version_file[1].version) = <<VmOld[1], 10, 0>>

---------------------------------------------------------------------------
\* the report of the split that has just ended: the command line and the
\* direct splitter keep it in the record, the windows in the status label
SplitReports ==
    (IF "created" \in DOMAIN last THEN {last.created} ELSE {})
    \cup (IF "created" \in DOMAIN progress_label
          THEN {progress_label.created} ELSE {})

\* C21: after a successful split the number of parts reported to the user
\* equals the number of segment files that invocation produced, whatever
\* splits of the same file came before.
C21_ReportedParts == \A report \in SplitReports : report.parts = report.made

\* the record holds a launch of the media tool
MediaLaunched(rec) == \E i \in 1..Len(rec.runs) : rec.runs[i].tool = "ffmpeg"

\* C22: a split request that is rejected (unknown method, empty or invalid
\* value, probing failure) leaves the filesystem unchanged: the directory
\* <stem>_split is made only when the media tool is launched.
C22_RejectedSplitFrame ==
    [][/\ \A choice \in SplitChoices, value \in TimeInputs \cup ValueInputs :
            (CliSplit(choice, value) /\ ~MediaLaunched(last')) => fs' = fs
       /\ \A method \in {"time", "size", "parts"} :
            \A raw \in GuiValueInputs(method) :
              (GuiSplitConfirm(method, raw) /\ ~last'.result) => fs' = fs]_vars

\* a worker thread is blocked in subprocess.run while its child runs
WorkerWaiting == \E i \in DOMAIN workers : workers[i].st = "child"

\* C23: in the windowed programs the indeterminate progress bar is animating
\* in exactly the states in which at least one worker thread is waiting for
\* its child process.
C23_BarWhileWaiting ==
    prog \in GuiPrograms => (progress_bar <=> WorkerWaiting)

---------------------------------------------------------------------------
(* Properties of scripts/build.py.                                         *)

\* a step failed: it raised, or it detected a failure and returned False
StepFailed(outcome) == outcome \in {"False", "raise"}

\* C24: ProfessionalBuilder.build runs its nine steps in order; it returns
\* True with the "BUILD SUCCESSFUL" summary whenever every step completes
\* without raising and without detecting a failure, and returns False only
\* if some step failed.
C24_BuilderResult ==
    /\ \A i \in 1..Len(pb_ran) : pb_ran[i].step = BuilderSteps[i]
    /\ pb_pc = "done" =>
         /\ pb_ret = "False" => \E i \in 1..Len(pb_ran) : StepFailed(pb_ran[i].outcome)
         /\ (\A i \in 1..Len(pb_ran) : ~StepFailed(pb_ran[i].outcome)) =>
              /\ Len(pb_ran) = Len(BuilderSteps)
              /\ pb_ret = "True" /\ pb_said = "BUILD SUCCESSFUL!"

---------------------------------------------------------------------------
\* the initial prompt accepts the text: what it makes of it is not empty and
\* is the file that exists
PromptAccepts == dd_form # "none" /\ dd_clean # <<>> /\ dd_clean = dd_path

\* C25: menu choice 9 normalises the path as the initial prompt does: every
\* text that the initial prompt accepts as an existing file is accepted by
\* choice 9 and selects the same path.
C25_SelectLikePrompt == PromptAccepts => dd_select = dd_clean

---------------------------------------------------------------------------
(* Properties of the progress bar.                                         *)

\* C26: for a bar created with total >= 0 and any sequence of update(n),
\* set_progress(c) and finish() calls with n, c >= 0: 0 <= current <= total
\* in every state, update never decreases current, finish leaves current
\* equal to total, and _display draws between 0 and width filled cells
\* without dividing by zero.
C26_ProgressBar ==
    /\ [](bar_last # "none" =>
            /\ 0 <= bar_current /\ bar_current <= bar_total
            /\ bar_last = "finish" => bar_current = bar_total
            /\ 0 <= bar_drawn.filled /\ bar_drawn.filled <= bar_width
            /\ bar_drawn.error = "")
    /\ [][bar_last' = "update" => bar_current' >= bar_current]_vars

\* a bar of 50 cells and total 3 was drawn after an update to 1: 16 cells
\* are filled
C26_Witness ==
    /\ bar_last = "update" /\ bar_total = 3 /\ bar_current = 1
    /\ bar_width = 50 /\ bar_drawn.filled = 16 /\ bar_drawn.eta = "s"

---------------------------------------------------------------------------
(* Properties of the spinner.                                              *)

\* the last call was stop() and it has returned
StopReturned ==
    /\ sn_pc = "idle" /\ sn_calls # <<>> /\ sn_calls[Len(sn_calls)] = "stop"

\* C27: for any sequence of start() and stop() calls, once stop() has
\* returned no spinner thread is still running, so that the status line is
\* the last thing printed.
C27_SpinnerStopped ==
    StopReturned =>
        /\ \A t \in DOMAIN sn_threads : sn_threads[t] = "dead"
        /\ sn_out = "status"

====
